---- MODULE Spec2Model ----
(***************************************************************************)
(* The augmentation loop of the router (core/router/augmentation_loop.cc): *)
(* the worker directory (augmentors), its published snapshot               *)
(* (allAugmentors), the inbox of entries pushed by augment(), the deadline *)
(* index (augmenting) and the loop-thread handlers doAugmentation,         *)
(* doConfig, doResponse, doDisconnection and checkExpiries.                *)
(*                                                                         *)
(* Augmentor names are modelled by the naturals 1, 2, ... ordered as the   *)
(* strings are ordered by operator<; 0 is the empty string "".             *)
(***************************************************************************)
EXTENDS Integers, Sequences, FiniteSets, TLC

VARIABLES
    augmentors,     \* worker directory: name -> sequence of instances
    allAugmentors,  \* published snapshot: sequence of names
    augmenting,     \* deadline index: auction id -> entry
    inbox,          \* entries pushed by augment(), not yet drained
    idle_,          \* the idle flag sleepUntilIdle() waits on
    now,            \* Date::now(), in checkExpiries periods
    checked,        \* checkExpiries has run since the clock last advanced
    crashed,        \* the process died on undefined behaviour
    entries,        \* history: one record per augment() call
    sent,           \* the frames the last handler gave to sendMessage
    hist,           \* history: the last operation, its arguments and the
                    \* directory it found, in the runs that record them
    merge,          \* one run of augment()'s merge on its own: the inputs,
                    \* and entry->outstanding once the loop has ended
    gc,             \* the snapshots on the heap, the published pointer,
                    \* allAugmentorsGc and the producers inside augment()
    vec,            \* two compact_vector<Data, Internal> objects, v and w
    pick            \* one call of pickInstance on its own: the instances
                    \* given, the instance returned and the instances after

\* the state of the augmentation loop
loopVars == <<augmentors, allAugmentors, augmenting, inbox, idle_, now,
              checked, crashed, entries, sent, hist>>

\* the state of the runs that exercise one function on its own
others == <<merge, gc, vec, pick>>

vars == <<augmentors, allAugmentors, augmenting, inbox, idle_, now, checked,
          crashed, entries, sent, hist, merge, gc, vec, pick>>

----------------------------------------------------------------------------
(* Bounds of the model *)

\* number of augment() calls in a run
MaxAugments == 2

\* the clock runs over 0..MaxTime
MaxTime == 1

\* the directory holds at most MaxInstances instances, all augmentors together
MaxInstances == 2

\* augment() calls made and instances registered, together
MaxLoad == 3

\* a RESPONSE is not delivered to an instance whose numInFlight is already
\* MaxUnderflow below zero
MaxUnderflow == 1

\* heap addresses an AllAugmentorInfo can be allocated at
MaxSnapshots == 3

\* producer threads inside augment()
MaxProducers == 2

\* the inline capacity Internal of a compact_vector runs over 0..MaxInternal
MaxInternal == 2

\* a compact_vector holds at most MaxVecSize elements
MaxVecSize == 3

\* reserve() is asked for at most MaxReserve elements
MaxReserve == 4

\* pickInstance on its own is given at most MaxPickLen instances
MaxPickLen == 3

\* with numInFlight in -1..MaxPickLoad each
MaxPickLoad == 2

(* Program constants *)

\* std::numeric_limits<int>::max(), the start value of minInFlights
IntMax == 2147483647

\* maxInFlight when the field is absent or negative
DefaultMaxInFlight == 3000

\* max_size(): std::numeric_limits<Size>::max(), for Size = uint16_t
MaxSizeValue == 65535

EmptyName == 0
Names == {1, 2}
Addrs == {"A", "B"}
Ids == {1, 2}

\* what std::stoi can return when it reads past the end of the frame
StoiGarbage == {-1, 1}

\* values of the optional fifth element of a CONFIG frame
MaxInFlightFields == {-1, 1}

----------------------------------------------------------------------------
(* Helpers *)

Range(s) == {s[i] : i \in 1..Len(s)}

Max(a, b) == IF a >= b THEN a ELSE b

\* all sequences that enumerate the set S once each
Orders(S) ==
    {s \in [1..Cardinality(S) -> S] : \A i, j \in 1..Cardinality(S) : i # j => s[i] # s[j]}

\* s without its i-th element: vector::erase(it)
RemoveAt(s, i) == SubSeq(s, 1, i - 1) \o SubSeq(s, i + 1, Len(s))

\* the elements of a std::set<std::string>, in iteration (ascending) order
RECURSIVE SetInOrder(_)
SetInOrder(S) ==
    IF S = {} THEN <<>>
    ELSE LET m == CHOOSE x \in S : \A y \in S : x <= y
         IN <<m>> \o SetInOrder(S \ {m})

----------------------------------------------------------------------------
(* The worker directory *)

\* AugmentorInstanceInfo(addr, maxInFlight): a new instance has nothing in
\* flight
NewInstance(addr, maxInFlight) ==
    [addr |-> addr, maxInFlight |-> maxInFlight, numInFlight |-> 0]

\* AugmentorInfo::findInstance: the index of the first instance at addr, 0
\* for null
FindInstance(instances, addr) ==
    IF \E i \in 1..Len(instances) : instances[i].addr = addr
    THEN CHOOSE i \in 1..Len(instances) :
            /\ instances[i].addr = addr
            /\ \A j \in 1..(i - 1) : instances[j].addr # addr
    ELSE 0

\* a pickInstance loop that lets a later instance with the same numInFlight
\* replace the one picked so far
RECURSIVE PickLoop_Last(_, _, _, _)
PickLoop_Last(instances, i, instance, minInFlights) ==
    IF i > Len(instances) THEN instance
    ELSE IF instances[i].numInFlight > minInFlights
         THEN PickLoop_Last(instances, i + 1, instance, minInFlights)
    ELSE IF instances[i].numInFlight >= instances[i].maxInFlight
         THEN PickLoop_Last(instances, i + 1, instance, minInFlights)
    ELSE PickLoop_Last(instances, i + 1, i, instances[i].numInFlight)

\* the loop of pickInstance over aug.instances from position i on; instance
\* is the index picked so far (0 for nullptr)
RECURSIVE PickLoop(_, _, _, _)
PickLoop(instances, i, instance, minInFlights) ==
    IF i > Len(instances) THEN instance
    ELSE IF instances[i].numInFlight >= minInFlights
         THEN PickLoop(instances, i + 1, instance, minInFlights)
    ELSE IF instances[i].numInFlight >= instances[i].maxInFlight
         THEN PickLoop(instances, i + 1, instance, minInFlights)
    ELSE PickLoop(instances, i + 1, i, instances[i].numInFlight)

\* a pickInstance that takes the first instance whatever its load
PickInstance_First(instances) ==
    [instance |-> IF instances = <<>> THEN 0 ELSE 1,
     instances |-> IF instances = <<>> THEN instances
                   ELSE [instances EXCEPT ![1].numInFlight = @ + 1]]

\* pickInstance: the index of the instance picked (0 for nullptr) and the
\* instances with its numInFlight incremented
PickInstance(instances) ==
    LET instance == PickLoop(instances, 1, 0, IntMax)
    IN [instance |-> instance,
        instances |-> IF instance = 0 THEN instances
                      ELSE [instances EXCEPT ![instance].numInFlight = @ + 1]]

\* a doDisconnection that erases the augmentor's first instance, whatever
\* its address, when it finds one at addr
EraseInstance_First(instances, addr) ==
    IF FindInstance(instances, addr) = 0 THEN instances ELSE Tail(instances)

\* the inner loop of doDisconnection: the first instance at addr is erased
EraseInstance(instances, addr) ==
    LET i == FindInstance(instances, addr)
    IN IF i = 0 THEN instances ELSE RemoveAt(instances, i)

\* a doDisconnection that skips every augmentor
Visited_None(dir, aug) == {}

\* a doDisconnection that visits every augmentor when aug is empty
Visited_All(dir, aug) ==
    {n \in DOMAIN dir : aug = EmptyName \/ n = aug}

\* the augmentors doDisconnection(addr, aug) does not skip
Visited(dir, aug) ==
    {n \in DOMAIN dir : ~(n # EmptyName /\ n # aug)}

\* doDisconnection(addr, aug) on the directory: the directory afterwards and
\* the names erased from it
DoDisconnectionDir(dir, addr, aug) ==
    LET visited == Visited(dir, aug)
        after == [n \in DOMAIN dir |->
                    IF n \in visited THEN EraseInstance(dir[n], addr) ELSE dir[n]]
        toErase == {n \in visited : after[n] = <<>>}
    IN [dir |-> [n \in (DOMAIN dir) \ toErase |-> after[n]],
        toErase |-> toErase]

\* insertion of x into a sequence sorted by name
RECURSIVE InsertSorted(_, _)
InsertSorted(s, x) ==
    IF s = <<>> THEN <<x>>
    ELSE IF x < Head(s) THEN <<x>> \o s
    ELSE <<Head(s)>> \o InsertSorted(Tail(s), x)

\* an updateAllAugmentors without its std::sort
SortByName_Unsorted(s) == s

\* std::sort of the new snapshot by entry1.name < entry2.name
RECURSIVE SortByName(_)
SortByName(s) ==
    IF s = <<>> THEN <<>>
    ELSE InsertSorted(SortByName(Tail(s)), Head(s))

\* updateAllAugmentors: the snapshot built from the directory's entries,
\* pushed in the container's iteration order and then sorted
UpdateAllAugmentors(order) == SortByName(order)

\* doConfig on the directory, once the frame is parsed: the old registration
\* of (addr, name) is dropped and the new instance appended
DoConfigDir(dir, addr, name, maxInFlight) ==
    LET d == DoDisconnectionDir(dir, addr, name).dir
        old == IF name \in DOMAIN d THEN d[name] ELSE <<>>
    IN [n \in (DOMAIN d) \cup {name} |->
            IF n = name THEN Append(old, NewInstance(addr, maxInFlight))
            ELSE d[n]]

\* the number of instances in the directory
RECURSIVE NumInstancesOf(_, _)
NumInstancesOf(dir, names) ==
    IF names = {} THEN 0
    ELSE LET n == CHOOSE x \in names : TRUE
         IN Len(dir[n]) + NumInstancesOf(dir, names \ {n})

NumInstances(dir) == NumInstancesOf(dir, DOMAIN dir)

\* the decrement of doResponse: numInFlight-- on the instance of augmentor at
\* addr, when there is one
DecrementInFlight(dir, augmentor, addr) ==
    IF augmentor \in DOMAIN dir
    THEN LET i == FindInstance(dir[augmentor], addr)
         IN IF i = 0 THEN dir
            ELSE [dir EXCEPT ![augmentor][i].numInFlight = @ - 1]
    ELSE dir

----------------------------------------------------------------------------
(* augment() and the deadline index *)

\* the augmentor names a caller's potentialGroups need: each group is a
\* sequence of bidders, each bidder the set of names of config.augmentations
Needed(potentialGroups) ==
    UNION {UNION Range(potentialGroups[i]) : i \in 1..Len(potentialGroups)}

\* a merge that steps past the snapshot's name when the needed name is the
\* smaller one
RECURSIVE MergeLoop_SkipBoth(_, _, _)
MergeLoop_SkipBoth(s1, s2, outstanding) ==
    IF s1 = <<>> \/ s2 = <<>> THEN outstanding
    ELSE IF Head(s1) = Head(s2)
         THEN MergeLoop_SkipBoth(Tail(s1), Tail(s2), outstanding \cup {Head(s1)})
    ELSE MergeLoop_SkipBoth(Tail(s1), Tail(s2), outstanding)

\* the merge loop of augment() over the needed names (it1) and the snapshot
\* (it2); the names inserted into entry->outstanding
RECURSIVE MergeLoop(_, _, _)
MergeLoop(s1, s2, outstanding) ==
    IF s1 = <<>> \/ s2 = <<>> THEN outstanding
    ELSE IF Head(s1) = Head(s2)
         THEN MergeLoop(Tail(s1), Tail(s2), outstanding \cup {Head(s1)})
    ELSE IF Head(s1) < Head(s2)
         THEN MergeLoop(Tail(s1), s2, outstanding)
    ELSE MergeLoop(s1, Tail(s2), outstanding)

\* entry->outstanding as augment() computes it against snapshot ai
Outstanding(potentialGroups, ai) ==
    MergeLoop(SetInOrder(Needed(potentialGroups)), ai, {})

\* an augment() that pushes every entry
PushesEntry_Always(outstanding) == TRUE

\* names of the runs of the merge on its own run over 0..MaxMergeName, 0
\* being the empty string
MaxMergeName == 3

\* the needed names of those runs come from one bidder, or from two groups
\* of one bidder with one name each
MergeGroupsInputs ==
    {<<<<S>>>> : S \in SUBSET (0..MaxMergeName)}
    \cup {<<<<{a}>>, <<{b}>>>> : a, b \in 0..MaxMergeName}

\* the snapshots updateAllAugmentors can publish: the names of a
\* directory, none empty, sorted
MergeSnapshots == {SetInOrder(S) : S \in SUBSET (1..MaxMergeName)}

\* whether augment() pushes the entry onto the inbox (or else calls
\* onFinished itself)
PushesEntry(outstanding) == outstanding # {}

\* TimeoutMap::expire: the ids whose deadline is at or before t
Expired(index, t) == {id \in DOMAIN index : index[id].timeout <= t}

\* TimeoutMap::earliest <= t (earliest is +infinity on an empty map)
EarliestDue(index, t) == \E id \in DOMAIN index : index[id].timeout <= t

\* a doAugmentation that takes no auction id for a duplicate
IsDuplicate_Never(index, id) == FALSE

\* augmenting.count(entry->info->auction->id): the id is already in the
\* deadline index
IsDuplicate(index, id) == id \in DOMAIN index

\* the loop of doAugmentation over entry->outstanding: the directory with
\* the picked instances' counters incremented, the AUGMENT frames sent,
\* the names that hit noAvailableInstances, and whether augmentors[name]
\* was a null record that the loop dereferenced
RECURSIVE DispatchLoop(_, _, _)
DispatchLoop(dir, names, frames) ==
    IF names = <<>>
    THEN [dir |-> dir, sent |-> frames, skipped |-> {}, nullDeref |-> FALSE]
    ELSE LET name == Head(names)
         IN IF name \notin DOMAIN dir
            THEN [dir |-> dir, sent |-> frames, skipped |-> {},
                  nullDeref |-> TRUE]
            ELSE LET p == PickInstance(dir[name])
                 IN IF p.instance = 0
                    THEN LET rest == DispatchLoop(dir, Tail(names), frames)
                         IN [rest EXCEPT !.skipped = @ \cup {name}]
                    ELSE DispatchLoop(
                            [dir EXCEPT ![name] = p.instances],
                            Tail(names),
                            Append(frames, [type |-> "AUGMENT",
                                          addr |-> dir[name][p.instance].addr,
                                          name |-> name]))

\* a doResponse that runs the callback of a completed entry and leaves the
\* entry in the index
DoResponseIndex_Keep(index, id, augmentor) ==
    IF id \notin DOMAIN index
    THEN [index |-> index, fired |-> {}, hits |-> {"augmentation.unknown"},
          merged |-> {}]
    ELSE LET left == index[id].outstanding \ {augmentor}
         IN [index |-> [index EXCEPT ![id].outstanding = left],
             fired |-> IF left = {} THEN {index[id].entry} ELSE {},
             hits |-> {}, merged |-> {index[id].entry}]

\* a doResponse that returns on an unknown auction id without recording it
DoResponseIndex_Silent(index, id, augmentor) ==
    IF id \notin DOMAIN index
    THEN [index |-> index, fired |-> {}, hits |-> {}, merged |-> {}]
    ELSE LET left == index[id].outstanding \ {augmentor}
         IN IF left = {}
            THEN [index |-> [i \in (DOMAIN index) \ {id} |-> index[i]],
                  fired |-> {index[id].entry}, hits |-> {},
                  merged |-> {index[id].entry}]
            ELSE [index |-> [index EXCEPT ![id].outstanding = left],
                  fired |-> {}, hits |-> {}, merged |-> {index[id].entry}]

\* a doResponse that completes the entry on the first RESPONSE for it
DoResponseIndex_First(index, id, augmentor) ==
    IF id \notin DOMAIN index
    THEN [index |-> index, fired |-> {}, hits |-> {"augmentation.unknown"},
          merged |-> {}]
    ELSE [index |-> [i \in (DOMAIN index) \ {id} |-> index[i]],
          fired |-> {index[id].entry}, hits |-> {},
          merged |-> {index[id].entry}]

\* doResponse on the deadline index, for a RESPONSE of augmentor about
\* auction id: the index afterwards, the entries whose onFinished ran, the
\* counters hit and the entries whose auction the payload was merged into
DoResponseIndex(index, id, augmentor) ==
    IF id \notin DOMAIN index
    THEN [index |-> index, fired |-> {}, hits |-> {"augmentation.unknown"},
          merged |-> {}]
    ELSE LET left == index[id].outstanding \ {augmentor}
         IN IF left = {}
            THEN [index |-> [i \in (DOMAIN index) \ {id} |-> index[i]],
                  fired |-> {index[id].entry}, hits |-> {},
                  merged |-> {index[id].entry}]
            ELSE [index |-> [index EXCEPT ![id].outstanding = left],
                  fired |-> {}, hits |-> {}, merged |-> {index[id].entry}]

\* a checkExpiries that expires only the entries whose deadline is before t
CheckExpiriesIndex_Strict(index, t) ==
    LET due == {id \in DOMAIN index : index[id].timeout < t}
    IN [index |-> [i \in (DOMAIN index) \ due |-> index[i]],
        fired |-> {index[i].entry : i \in due}]

\* a checkExpiries that expires nothing
CheckExpiriesIndex_Never(index, t) == [index |-> index, fired |-> {}]

\* a checkExpiries that, once one entry is due, expires the whole index
CheckExpiriesIndex_All(index, t) ==
    IF EarliestDue(index, t)
    THEN [index |-> <<>>, fired |-> {index[i].entry : i \in DOMAIN index}]
    ELSE [index |-> index, fired |-> {}]

\* checkExpiries on the deadline index at time t: the index afterwards and
\* the entries whose onFinished ran (augmentationExpired)
CheckExpiriesIndex(index, t) ==
    IF EarliestDue(index, t)
    THEN [index |-> [i \in (DOMAIN index) \ Expired(index, t) |-> index[i]],
          fired |-> {index[i].entry : i \in Expired(index, t)}]
    ELSE [index |-> index, fired |-> {}]

\* the payloads that are neither empty nor "null"; a decodable one is the
\* JSON of an AugmentationList, given here with the tags it carries
DecodablePayload == "{\"acct\":{\"tags\":[\"t\"]}}"
UndecodablePayload == "{"
DecodedTags == {"t"}

\* a decoding that keeps what it had read when the exception was thrown
ParseAugmentation_Partial(augmentation) ==
    IF augmentation = "" \/ augmentation = "null"
    THEN [list |-> {}, threw |-> FALSE]
    ELSE IF augmentation = DecodablePayload
    THEN [list |-> DecodedTags, threw |-> FALSE]
    ELSE [list |-> DecodedTags, threw |-> TRUE]

\* the augmentationList doResponse builds from message[6]: left empty for
\* "" and "null", the decoded list when Json::parse and fromJson succeed,
\* and left empty, with the exception caught, when one of them throws
ParseAugmentation(augmentation) ==
    IF augmentation = "" \/ augmentation = "null"
    THEN [list |-> {}, threw |-> FALSE]
    ELSE IF augmentation = DecodablePayload
    THEN [list |-> DecodedTags, threw |-> FALSE]
    ELSE [list |-> {}, threw |-> TRUE]

\* auction->augmentations[augmentor].mergeWith(list): operator[] makes the
\* key when it is missing
MergeWith(augmentations, augmentor, list) ==
    [n \in (DOMAIN augmentations) \cup {augmentor} |->
        IF n \in DOMAIN augmentations
        THEN IF n = augmentor THEN augmentations[n] \cup list
             ELSE augmentations[n]
        ELSE list]

\* the entries' records after list was merged into the auction of each
\* entry in merged. The loop never reads an auction's augmentations back;
\* they are followed in the runs that record each handler's frame
Merged(es, merged, augmentor, list) ==
    [e \in DOMAIN es |->
        IF e \in merged
        THEN [es[e] EXCEPT
                !.augmentations = MergeWith(@, augmentor, list)]
        ELSE es[e]]

----------------------------------------------------------------------------
(* History *)

\* an operation: what it was, how it went, its arguments and the directory
\* it found
NoOp ==
    [op |-> "init", note |-> "", addr |-> "", name |-> EmptyName, pre |-> <<>>]

NoHist ==
    [on |-> FALSE, full |-> FALSE, op |-> "init", note |-> "", addr |-> "",
     name |-> EmptyName, pre |-> <<>>, frame |-> <<>>, last |-> NoOp]

\* hist after operation op with arguments addr and name went as note says.
\* frame is the frame a doConfig was given, or the frame a handler threw
\* on; last is the doConfig that ran
\* just before a doDisconnection. The runs that follow the whole loop
\* record the operation and how it went, and nothing more
Recorded(op, note, addr, name, frame) ==
    IF hist.on /\ hist.full
    THEN [on |-> TRUE, full |-> TRUE, op |-> op, note |-> note,
          addr |-> addr, name |-> name,
          pre |-> augmentors,
          frame |-> IF op = "doConfig" \/ note = "throw" THEN frame ELSE <<>>,
          last |-> IF op = "doDisconnection" /\ hist.op = "doConfig"
                   THEN [op |-> hist.op, note |-> hist.note,
                         addr |-> hist.addr, name |-> hist.name,
                         pre |-> hist.pre]
                   ELSE NoOp]
    ELSE IF hist.on
    THEN [hist EXCEPT !.op = op, !.note = note]
    ELSE hist

\* the handlers that run inside Guard guard(lock); augment() takes no lock
HoldsLock(op) ==
    op \in {"handleAugmentorMessage", "checkExpiries", "doAugmentation",
            "numAugmenting", "currentlyAugmenting"}

\* the entries' records after onFinished ran for each entry in fired, from
\* handler op; the deadline of an entry whose callback has run is no longer
\* recorded
Finished(es, fired, state, op) ==
    [e \in DOMAIN es |->
        IF e \in fired
        THEN [es[e] EXCEPT !.fires = @ + 1, !.state = state,
                           !.timeout = 0, !.due = 0,
                           !.locked = HoldsLock(op)]
        ELSE es[e]]

----------------------------------------------------------------------------
(* Inputs *)

\* potentialGroups of the AugmentationInfo handed to augment()
PotentialGroupsInputs ==
    {<<>>, <<<<{}>>>>, <<<<{1}>>>>, <<<<{}>>, <<{2}>>>>, <<<<{1}, {2}>>>>}

Payloads == {""}

\* inbound frames: message[0] is the peer address, message[1] the type
ConfigFrames ==
    {<<a, "CONFIG", "1.0", n>> : a \in Addrs, n \in Names}
    \cup {<<a, "CONFIG", "1.0", n, m>> :
            a \in Addrs, n \in Names, m \in MaxInFlightFields}

ResponseFrames ==
    {<<a, "RESPONSE", "1.0", 0, id, n, p>> :
        a \in Addrs, id \in Ids, n \in Names, p \in Payloads}

\* frames the handlers reject
MalformedFrames ==
    {<<"A">>, <<"A", "HELLO">>,
     <<"A", "CONFIG", "1.0">>, <<"A", "CONFIG", "1.0", 1, 1, 1>>,
     <<"A", "CONFIG", "2.0", 1>>, <<"A", "CONFIG", "1.0", EmptyName>>,
     <<"A", "CONFIG", "2.0", 1, 1>>, <<"A", "CONFIG", "1.0", EmptyName, 1>>,
     <<"A", "RESPONSE", "1.0", 0, 1, 1>>, <<"A", "RESPONSE", "2.0", 0, 1, 1, "">>}

Messages == ConfigFrames \cup ResponseFrames \cup MalformedFrames

\* RESPONSE frames with each kind of payload
AllPayloads == {"", "null", UndecodablePayload, DecodablePayload}

PayloadFrames ==
    {<<a, "RESPONSE", "1.0", 0, id, n, p>> :
        a \in Addrs, id \in Ids, n \in Names, p \in AllPayloads}

\* message[k] of the code (zero-based)
At(message, k) == message[k + 1]

\* the instance sequences pickInstance is given on its own
PickLoads == (0 - 1)..MaxPickLoad
PickLimits == {0, 2, DefaultMaxInFlight}
PickInstances ==
    {[addr |-> "A", maxInFlight |-> m, numInFlight |-> n] :
        m \in PickLimits, n \in PickLoads}
PickInputs ==
    UNION {[1..len -> PickInstances] : len \in 0..MaxPickLen}

\* no call of pickInstance on its own
NoPick == [pc |-> "none", instances |-> <<>>, instance |-> 0, after |-> <<>>]

\* no run of the merge on its own
NoMerge == [pc |-> "none", potentialGroups |-> <<>>, ai |-> <<>>,
            outstanding |-> {}]

\* heap addresses of snapshots, and the producer threads
Snapshots == 1..MaxSnapshots
Producers == 1..MaxProducers

\* after the constructor's updateAllAugmentors(): one snapshot, built and
\* published, nothing deferred, no producer inside augment()
GcStart ==
    [heap |-> [a \in Snapshots |-> IF a = 1 THEN "built" ELSE "free"],
     allAugmentors |-> 1,
     newInfo |-> 0,
     current |-> 0,
     deferred |-> {},
     pc |-> [t \in Producers |-> "out"],
     ai |-> [t \in Producers |-> 0],
     read |-> [t \in Producers |-> "none"]]

\* GcLock::defer(work): the work waits for the shared guards held now
Defer(g, current) ==
    [g EXCEPT !.deferred = @ \cup
        {[snapshot |-> current,
          waiting |-> {t \in Producers : g.pc[t] # "out"}]}]

\* updateAllAugmentors: current = allAugmentors; allAugmentors =
\* newInfo.get(); newInfo.release()
PublishSnapshot(g) ==
    [g EXCEPT !.current = g.allAugmentors,
              !.allAugmentors = g.newInfo,
              !.newInfo = 0]

\* an updateAllAugmentors that deletes the previous snapshot itself
DeferDelete_Now(g) ==
    [g EXCEPT !.current = 0, !.heap[g.current] = "free"]

\* updateAllAugmentors: allAugmentorsGc.defer([=] () { delete current; })
DeferDelete(g) == Defer([g EXCEPT !.current = 0], g.current)

----------------------------------------------------------------------------
(* compact_vector<Data, Internal, Size = uint16_t, Safe = true> *)

\* element values, Data() and what a slot outside the storage may hold
DataValues == {1, 2}
DefaultData == 0
GarbageData == -1

\* compact_vector(): size_(0), is_internal_(true); capacity_ and allocated
\* are ext.capacity_ and the element count ext.pointer_ was allocated with
EmptyVector ==
    [size_ |-> 0, is_internal_ |-> TRUE, capacity_ |-> 0, allocated |-> 0,
     elems |-> <<>>]

\* two empty vectors of inline capacity Internal, in a program that builds
VecStart(Internal) ==
    [Internal |-> Internal, built |-> TRUE, crashed |-> FALSE,
     v |-> EmptyVector, w |-> EmptyVector]

\* capacity(): is_internal() ? Internal : ext.capacity_
Capacity(c, Internal) == IF c.is_internal_ THEN Internal ELSE c.capacity_

Min(a, b) == IF a <= b THEN a ELSE b

\* the elements xs[from + 1 .. to] of a sequence (from and to zero-based
\* positions, as begin() + from and begin() + to)
Slice(xs, from, to) == [k \in 1..(to - from) |-> xs[from + k]]

\* init(first, last, to_alloc) on a cleared vector: external storage if
\* to_alloc > Internal, then the elements copied in
InitVector(Internal, xs, to_alloc) ==
    IF to_alloc > Internal
    THEN [size_ |-> Len(xs), is_internal_ |-> FALSE, capacity_ |-> to_alloc,
          allocated |-> to_alloc, elems |-> xs]
    ELSE [size_ |-> Len(xs), is_internal_ |-> TRUE, capacity_ |-> 0,
          allocated |-> 0, elems |-> xs]

\* a.swap(b): the pair of vectors afterwards
SwapVectors(a, b) ==
    IF ~a.is_internal_ /\ ~b.is_internal_
    THEN \* swap_size, capacity_ and pointer_ exchanged
         [a |-> b, b |-> a]
    ELSE IF a.is_internal_ /\ b.is_internal_
    THEN \* common elements swapped, leftovers copied, swap_size
         [a |-> [a EXCEPT !.size_ = b.size_, !.elems = b.elems],
          b |-> [b EXCEPT !.size_ = a.size_, !.elems = a.elems]]
    ELSE IF ~a.is_internal_
    THEN \* other.swap(*this): b is internal and takes a's pointer
         [a |-> [b EXCEPT !.is_internal_ = TRUE],
          b |-> [a EXCEPT !.is_internal_ = FALSE]]
    ELSE \* a is internal and takes b's pointer, b a's inline elements
         [a |-> [b EXCEPT !.is_internal_ = FALSE],
          b |-> [a EXCEPT !.is_internal_ = TRUE]]

\* clear(): elements destroyed, external storage deallocated
ClearVector(c) == EmptyVector

\* reserve(new_capacity)
Reserve(c, Internal, new_capacity) ==
    IF Capacity(c, Internal) >= new_capacity THEN c
    ELSE LET to_alloc == Min(Max(Capacity(c, Internal) * 2, new_capacity),
                             MaxSizeValue)
             new_me == InitVector(Internal, c.elems, to_alloc)
         IN SwapVectors(c, new_me).a

\* resize(new_size, new_element)
Resize(c, Internal, new_size, new_element) ==
    IF c.size_ = new_size THEN c
    ELSE IF c.size_ < new_size
    THEN LET r == Reserve(c, Internal, new_size)
         IN [r EXCEPT !.size_ = new_size,
                      !.elems = r.elems \o
                          [k \in 1..(new_size - r.size_) |-> new_element]]
    ELSE IF ~c.is_internal_ /\ new_size <= Internal
    THEN LET new_me == InitVector(Internal, Slice(c.elems, 0, new_size),
                                  new_size)
         IN SwapVectors(c, new_me).a
    ELSE [c EXCEPT !.size_ = new_size,
                   !.elems = Slice(c.elems, 0, new_size)]

\* push_back: if (size_ >= capacity()) reserve(size_ * 2)
PushBackReserve(c, Internal) ==
    IF c.size_ >= Capacity(c, Internal)
    THEN Reserve(c, Internal, c.size_ * 2)
    ELSE c

\* push_back: new (data() + size_) Data(d) writes outside the storage
PushBackOutOfBounds(c, Internal) ==
    LET r == PushBackReserve(c, Internal)
    IN r.size_ >= Capacity(r, Internal)

\* push_back(d): the vectors it can leave. An element constructed outside
\* the storage reads back as d or as anything else
PushBack(c, Internal, d) ==
    LET r == PushBackReserve(c, Internal)
    IN IF PushBackOutOfBounds(c, Internal)
       THEN {[r EXCEPT !.size_ = @ + 1, !.elems = Append(@, x)] :
                x \in {d, GarbageData}}
       ELSE {[r EXCEPT !.size_ = @ + 1, !.elems = Append(@, d)]}

\* pop_back() on a vector that is not empty
PopBack(c) ==
    [c EXCEPT !.size_ = @ - 1, !.elems = Slice(c.elems, 0, c.size_ - 1)]

\* the loop of start_insert that moves elements to the end: for (i = size_
\* - 1; i >= index + n; --i) data()[i] = data()[i - n]
RECURSIVE MoveToEnd(_, _, _, _)
MoveToEnd(xs, i, index, n) ==
    IF i < index + n THEN xs
    ELSE MoveToEnd([xs EXCEPT ![i + 1] = xs[i - n + 1]], i - 1, index, n)

\* start_insert(begin() + index, n), index within 0..size_
StartInsert(c, Internal, index, n) ==
    IF n = 0 THEN c
    ELSE LET r == IF c.size_ + n > Capacity(c, Internal)
                  THEN Reserve(c, Internal, c.size_ + n)
                  ELSE c
             grown == r.elems \o [k \in 1..n |-> DefaultData]
         IN [r EXCEPT !.size_ = @ + n,
                      !.elems = MoveToEnd(grown, r.size_ + n - 1, index, n)]

\* insert(begin() + index, f, l) with [f, l) holding xs: start_insert, then
\* std::copy
InsertRange(c, Internal, index, xs) ==
    LET r == StartInsert(c, Internal, index, Len(xs))
    IN [r EXCEPT !.elems =
            [k \in 1..Len(r.elems) |->
                IF k > index /\ k <= index + Len(xs)
                THEN xs[k - index] ELSE r.elems[k]]]

\* erase(begin() + first, begin() + last), 0 <= first <= last <= size_
Erase(c, Internal, first, last) ==
    LET n == last - first
        new_size == c.size_ - n
    IN IF n = 0 THEN c
       ELSE IF ~c.is_internal_ /\ new_size <= Internal
       THEN LET new_me == InitVector(Internal, Slice(c.elems, 0, first),
                                     new_size)
                filled == InsertRange(new_me, Internal, new_me.size_,
                                      Slice(c.elems, last, c.size_))
            IN SwapVectors(c, filled).a
       ELSE [c EXCEPT !.size_ = new_size,
                      !.elems = Slice(c.elems, 0, first)
                                \o Slice(c.elems, last, c.size_)]

\* insert(pos, n, x) is declared void and returns result + n, and
\* insert(pos, x) returns what insert(pos, 1, x) returns: neither member
\* can be instantiated, so a program that calls one does not build
InsertWellFormed == FALSE

\* operator ==: the sizes and the elements are equal
EqualByValue(a, b) == a.size_ = b.size_ /\ a.elems = b.elems

----------------------------------------------------------------------------
(* Operations *)

Init ==
    /\ augmentors = <<>>
    /\ allAugmentors = <<>>
    /\ augmenting = <<>>
    /\ inbox = <<>>
    /\ idle_ = 1
    /\ now = 0
    /\ checked = FALSE
    /\ crashed = FALSE
    /\ entries = <<>>
    /\ sent = <<>>
    /\ hist = NoHist
    /\ merge = NoMerge
    /\ gc = GcStart
    /\ vec = VecStart(0)
    /\ pick = NoPick

\* the process dies: its in-memory state is gone
Crash(op, frame) ==
    /\ crashed' = TRUE
    /\ augmentors' = <<>>
    /\ allAugmentors' = <<>>
    /\ augmenting' = <<>>
    /\ inbox' = <<>>
    /\ idle_' = 1
    /\ entries' = <<>>
    /\ sent' = <<>>
    /\ hist' = Recorded(op, "crash", "", EmptyName, frame)
    /\ UNCHANGED <<now, checked>>
    /\ UNCHANGED others

\* a handler left by an exception: nothing but the history changes
ThrowFrom(op, addr, name, frame) ==
    /\ sent' = <<>>
    /\ hist' = Recorded(op, "throw", addr, name, frame)
    /\ UNCHANGED <<augmentors, allAugmentors, augmenting, inbox, idle_, now,
                   checked, crashed, entries>>
    /\ UNCHANGED others

Throw(op, frame) == ThrowFrom(op, "", EmptyName, frame)

\* augment(info, timeout, onFinished), called on any thread
Augment(potentialGroups, id, timeout) ==
    /\ ~crashed
    /\ Len(entries) < MaxAugments
    /\ Len(entries) + NumInstances(augmentors) < MaxLoad
    /\ LET outstanding == Outstanding(potentialGroups, allAugmentors)
           rec == [timeout |-> timeout, due |-> Max(timeout, now),
                   state |-> "queued", fires |-> 0, dupOf |-> 0,
                   unserved |-> {}, locked |-> FALSE,
                   augmentations |-> <<>>]
       IN IF PushesEntry(outstanding)
          THEN /\ inbox' = Append(inbox, [entry |-> Len(entries) + 1, id |-> id,
                                          outstanding |-> outstanding,
                                          timeout |-> timeout])
               /\ entries' = Append(entries, rec)
               /\ hist' = Recorded("augment", "pushed", "", EmptyName, <<>>)
          ELSE /\ inbox' = inbox
               /\ entries' = Append(entries,
                                    [rec EXCEPT !.state = "sync", !.fires = 1,
                                                !.timeout = 0, !.due = 0,
                                                !.locked = HoldsLock("augment")])
               /\ hist' = Recorded("augment", "sync", "", EmptyName, <<>>)
    /\ sent' = <<>>
    /\ UNCHANGED <<augmentors, allAugmentors, augmenting, idle_, now, checked, crashed>>
    /\ UNCHANGED others

\* inbox.onEvent: doAugmentation(entry) on the entry at the head of the inbox
DoAugmentation ==
    /\ ~crashed
    /\ inbox # <<>>
    /\ UNCHANGED others
    /\ LET entry == Head(inbox)
           d == DispatchLoop(augmentors, SetInOrder(entry.outstanding), <<>>)
       IN IF IsDuplicate(augmenting, entry.id)
          THEN /\ inbox' = Tail(inbox)
               /\ entries' = [entries EXCEPT
                     ![entry.entry].state = "dropped",
                     ![entry.entry].dupOf = augmenting[entry.id].entry]
               /\ sent' = <<>>
               /\ hist' = Recorded("doAugmentation", "duplicate", "", EmptyName, <<>>)
               /\ UNCHANGED <<augmentors, allAugmentors, augmenting, idle_, now,
                              checked, crashed>>
          ELSE IF d.nullDeref
          THEN Crash("doAugmentation", <<>>)
          ELSE /\ inbox' = Tail(inbox)
               /\ augmenting' =
                     [i \in (DOMAIN augmenting) \cup {entry.id} |->
                         IF i = entry.id
                         THEN [entry |-> entry.entry,
                               outstanding |-> entry.outstanding,
                               timeout |-> entry.timeout]
                         ELSE augmenting[i]]
               /\ augmentors' = d.dir
               /\ entries' = [entries EXCEPT ![entry.entry].state = "pending",
                                            ![entry.entry].unserved = d.skipped]
               /\ idle_' = 0
               /\ sent' = d.sent
               /\ hist' = Recorded("doAugmentation", "dispatched", "", EmptyName, <<>>)
               /\ UNCHANGED <<allAugmentors, now, checked, crashed>>

\* what reading one element past the end of the frame and handing it to
\* std::stoi can do: throw, kill the process, or return some int
PastTheEnd ==
    {[kind |-> "throw", value |-> 0], [kind |-> "crash", value |-> 0]}
    \cup {[kind |-> "value", value |-> v] : v \in StoiGarbage}

\* the value doConfig gives maxInFlight before defaulting it: -1, or
\* std::stoi(message[5]) when the frame has five elements or more
ReadMaxInFlight(message) ==
    IF Len(message) >= 5
    THEN IF Len(message) > 5
         THEN {[kind |-> "value", value |-> At(message, 5)]}
         ELSE PastTheEnd
    ELSE {[kind |-> "value", value |-> -1]}

\* if (maxInFlight < 0) maxInFlight = 3000
DefaultedMaxInFlight(maxInFlight) ==
    IF maxInFlight < 0 THEN DefaultMaxInFlight ELSE maxInFlight

\* doConfig(message)
DoConfig(message) ==
    IF Len(message) < 4 \/ Len(message) > 5
    THEN Throw("doConfig", message)
    ELSE LET addr == At(message, 0)
             version == At(message, 2)
             name == At(message, 3)
         IN \E r \in ReadMaxInFlight(message) :
             IF r.kind = "crash"
             THEN Crash("doConfig", message)
             ELSE IF r.kind = "throw" \/ version # "1.0" \/ name = EmptyName
             THEN ThrowFrom("doConfig", addr, name, message)
             ELSE LET d == DoConfigDir(augmentors, addr, name,
                                       DefaultedMaxInFlight(r.value))
                      replaced == IF name \in DOMAIN augmentors
                                  THEN FindInstance(augmentors[name], addr) # 0
                                  ELSE FALSE
                  IN /\ NumInstances(d) <= MaxInstances
                     /\ augmentors' = d
                     /\ \E order \in Orders(DOMAIN d) :
                             allAugmentors' = UpdateAllAugmentors(order)
                     /\ NumInstances(d) + Len(entries) <= MaxLoad
                     /\ sent' = <<[type |-> "CONFIGOK", addr |-> addr,
                                   name |-> EmptyName]>>
                     /\ hist' = Recorded("doConfig",
                                         IF replaced THEN "replaced" ELSE "added",
                                         addr, name, message)
                     /\ UNCHANGED <<augmenting, inbox, idle_, now, checked,
                                    crashed, entries>>
                     /\ UNCHANGED others

\* the instance a RESPONSE frame is accounted to has not yet gone
\* MaxUnderflow below zero
WithinUnderflow(augmentor, addr) ==
    IF augmentor \notin DOMAIN augmentors THEN TRUE
    ELSE IF FindInstance(augmentors[augmentor], addr) = 0 THEN TRUE
    ELSE augmentors[augmentor][FindInstance(augmentors[augmentor], addr)].numInFlight
            > 0 - MaxUnderflow

\* doResponse(message)
DoResponse(message) ==
    IF Len(message) # 7
    THEN Throw("doResponse", message)
    ELSE IF At(message, 2) # "1.0"
    THEN Throw("doResponse", message)
    ELSE LET addr == At(message, 0)
             id == At(message, 4)
             augmentor == At(message, 5)
             parsed == ParseAugmentation(At(message, 6))
             r == DoResponseIndex(augmenting, id, augmentor)
             h == Recorded("doResponse",
                           IF "augmentation.unknown" \in r.hits THEN "unknown"
                           ELSE IF r.fired = {} THEN "partial" ELSE "completed",
                           addr, augmentor, <<>>)
         IN /\ WithinUnderflow(augmentor, addr)
            /\ augmentors' = DecrementInFlight(augmentors, augmentor, addr)
            /\ augmenting' = r.index
            /\ entries' = Finished(IF h.full
                                   THEN Merged(entries, r.merged, augmentor,
                                               parsed.list)
                                   ELSE entries,
                                   r.fired, "completed",
                                   "handleAugmentorMessage")
            /\ sent' = <<>>
            /\ hist' = IF h.full /\ parsed.threw
                       THEN [h EXCEPT !.frame = message]
                       ELSE h
            /\ UNCHANGED <<allAugmentors, inbox, idle_, now, checked, crashed>>
            /\ UNCHANGED others

\* toAugmentors.clientMessageHandler: handleAugmentorMessage(message)
HandleAugmentorMessage(message) ==
    /\ ~crashed
    /\ IF Len(message) < 2
       THEN Throw("handleAugmentorMessage", message)
       ELSE IF At(message, 1) = "CONFIG" THEN DoConfig(message)
       ELSE IF At(message, 1) = "RESPONSE" THEN DoResponse(message)
       ELSE Throw("handleAugmentorMessage", message)

\* doDisconnection(addr, aug) as a handler of its own
Disconnect(addr, aug) ==
    /\ ~crashed
    /\ LET r == DoDisconnectionDir(augmentors, addr, aug)
       IN /\ augmentors' = r.dir
          /\ IF r.toErase # {}
             THEN \E order \in Orders(DOMAIN r.dir) :
                        allAugmentors' = UpdateAllAugmentors(order)
             ELSE allAugmentors' = allAugmentors
          /\ hist' = Recorded("doDisconnection",
                              IF r.dir = augmentors THEN "none" ELSE "removed",
                              addr, aug, <<>>)
    /\ sent' = <<>>
    /\ UNCHANGED <<augmenting, inbox, idle_, now, checked, crashed, entries>>
    /\ UNCHANGED others

\* disconnections.onEvent: doDisconnection(addr), the augmentor left to its
\* default, the empty string
DoDisconnection(addr) == Disconnect(addr, EmptyName)

\* doDisconnection(addr, aug) called with an augmentor name
DoDisconnectionNamed(addr, aug) == Disconnect(addr, aug)

\* sleepUntilIdle(): while (!idle_) futex_wait(idle_, 0) is past its loop
SleepUntilIdleReturns == idle_ # 0

\* checkExpiries() on everything but the record of its having run
CheckExpiriesStep ==
    /\ ~crashed
    /\ LET r == CheckExpiriesIndex(augmenting, now)
       IN /\ augmenting' = r.index
          /\ entries' = Finished(entries, r.fired, "expired", "checkExpiries")
          /\ idle_' = IF r.index = <<>> /\ idle_ = 0 THEN 1 ELSE idle_
          /\ hist' = Recorded("checkExpiries",
                              IF r.fired = {} THEN "none" ELSE "expired",
                              "", EmptyName, <<>>)
    /\ sent' = <<>>
    /\ UNCHANGED <<augmentors, allAugmentors, inbox, now, crashed>>
    /\ UNCHANGED others

\* the clock advances by one checkExpiries period
TickStep ==
    /\ ~crashed
    /\ now < MaxTime
    /\ now' = now + 1
    /\ hist' = Recorded("tick", "", "", EmptyName, <<>>)
    /\ UNCHANGED <<augmentors, allAugmentors, augmenting, inbox, idle_, crashed,
                   entries, sent>>
    /\ UNCHANGED others

\* checkExpiries(), the periodic callback, run at any time
CheckExpiries == CheckExpiriesStep /\ UNCHANGED checked

Tick == TickStep /\ UNCHANGED checked

\* checkExpiries() in the runs that keep track of the loop thread's cadence
TimedCheckExpiries == CheckExpiriesStep /\ checked' = TRUE

\* the clock advances while the loop thread keeps up: the inbox is drained
\* and checkExpiries has run in the period that ends
TimedTick ==
    /\ inbox = <<>>
    /\ checked
    /\ TickStep
    /\ checked' = FALSE

Calls ==
    \/ \E pg \in PotentialGroupsInputs, id \in Ids, t \in 0..MaxTime :
            Augment(pg, id, t)
    \/ DoAugmentation
    \/ \E message \in Messages : HandleAugmentorMessage(message)
    \/ \E addr \in Addrs : DoDisconnection(addr)

Next == Calls \/ CheckExpiries \/ Tick

Spec == Init /\ [][Next]_vars

\* the runs in which the loop thread keeps draining the inbox and running
\* checkExpiries every period
TimedNext == Calls \/ TimedCheckExpiries \/ TimedTick

TimedSpec == Init /\ [][TimedNext]_vars

\* the runs of the whole loop with each operation, and how it went, recorded
OpsInit ==
    /\ augmentors = <<>>
    /\ allAugmentors = <<>>
    /\ augmenting = <<>>
    /\ inbox = <<>>
    /\ idle_ = 1
    /\ now = 0
    /\ checked = FALSE
    /\ crashed = FALSE
    /\ entries = <<>>
    /\ sent = <<>>
    /\ hist = [NoHist EXCEPT !.on = TRUE]
    /\ merge = NoMerge
    /\ gc = GcStart
    /\ vec = VecStart(0)
    /\ pick = NoPick

\* the frames of well-formed CONFIG and RESPONSE messages
OpsMessages == ConfigFrames \cup ResponseFrames

OpsNext ==
    \/ \E pg \in PotentialGroupsInputs, id \in Ids, t \in 0..MaxTime :
            Augment(pg, id, t)
    \/ DoAugmentation
    \/ \E message \in OpsMessages : HandleAugmentorMessage(message)
    \/ \E addr \in Addrs : DoDisconnection(addr)
    \/ CheckExpiries
    \/ Tick

OpsSpec == OpsInit /\ [][OpsNext]_vars

\* augment()'s merge on its own: the loop ended
MergeRun ==
    /\ merge.pc = "start"
    /\ merge' = [merge EXCEPT
            !.pc = "done",
            !.outstanding = Outstanding(merge.potentialGroups, merge.ai)]
    /\ UNCHANGED loopVars
    /\ UNCHANGED <<gc, vec, pick>>

\* the next call of augment(): other potentialGroups, another snapshot
MergeAgain ==
    /\ merge.pc = "done"
    /\ \E pg \in MergeGroupsInputs, ai \in MergeSnapshots :
            merge' = [pc |-> "start", potentialGroups |-> pg, ai |-> ai,
                      outstanding |-> {}]
    /\ UNCHANGED loopVars
    /\ UNCHANGED <<gc, vec, pick>>

MergeInit ==
    /\ augmentors = <<>>
    /\ allAugmentors = <<>>
    /\ augmenting = <<>>
    /\ inbox = <<>>
    /\ idle_ = 1
    /\ now = 0
    /\ checked = FALSE
    /\ crashed = FALSE
    /\ entries = <<>>
    /\ sent = <<>>
    /\ hist = NoHist
    /\ \E pg \in MergeGroupsInputs, ai \in MergeSnapshots :
            merge = [pc |-> "start", potentialGroups |-> pg, ai |-> ai,
                     outstanding |-> {}]
    /\ gc = GcStart
    /\ vec = VecStart(0)
    /\ pick = NoPick

MergeNext == MergeRun \/ MergeAgain

\* the runs of augment()'s merge over every needed set and every snapshot
MergeSpec == MergeInit /\ [][MergeNext]_vars

\* updateAllAugmentors: new AllAugmentorInfo(), at an address the allocator
\* has free
NewSnapshot ==
    /\ gc.newInfo = 0
    /\ gc.current = 0
    /\ \E a \in Snapshots :
        /\ gc.heap[a] = "free"
        /\ gc' = [gc EXCEPT !.heap[a] = "building", !.newInfo = a]
    /\ UNCHANGED loopVars
    /\ UNCHANGED <<merge, vec, pick>>

\* updateAllAugmentors: the entries pushed and sorted, memory_barrier()
FillSnapshot ==
    /\ gc.newInfo # 0
    /\ gc.heap[gc.newInfo] = "building"
    /\ gc' = [gc EXCEPT !.heap[gc.newInfo] = "built"]
    /\ UNCHANGED loopVars
    /\ UNCHANGED <<merge, vec, pick>>

\* updateAllAugmentors: the pointer swapped
Publish ==
    /\ gc.newInfo # 0
    /\ gc.heap[gc.newInfo] = "built"
    /\ gc' = PublishSnapshot(gc)
    /\ UNCHANGED loopVars
    /\ UNCHANGED <<merge, vec, pick>>

\* updateAllAugmentors: the delete of the old snapshot deferred
DeferCurrent ==
    /\ gc.current # 0
    /\ gc' = DeferDelete(gc)
    /\ UNCHANGED loopVars
    /\ UNCHANGED <<merge, vec, pick>>

\* allAugmentorsGc runs a deferred delete that no guard is waited on for
RunDeferred ==
    /\ \E d \in gc.deferred :
        /\ d.waiting = {}
        /\ gc' = [gc EXCEPT !.deferred = @ \ {d},
                            !.heap[d.snapshot] = "free"]
    /\ UNCHANGED loopVars
    /\ UNCHANGED <<merge, vec, pick>>

\* augment() on thread t: GcLock::SharedGuard guard(allAugmentorsGc)
EnterGuard(t) ==
    /\ gc.pc[t] = "out"
    /\ gc' = [gc EXCEPT !.pc[t] = "guarded"]
    /\ UNCHANGED loopVars
    /\ UNCHANGED <<merge, vec, pick>>

\* augment() on thread t: ai = allAugmentors
LoadSnapshot(t) ==
    /\ gc.pc[t] = "guarded"
    /\ gc' = [gc EXCEPT !.pc[t] = "loaded", !.ai[t] = gc.allAugmentors]
    /\ UNCHANGED loopVars
    /\ UNCHANGED <<merge, vec, pick>>

\* augment() on thread t: the merge loop reads *ai
ReadSnapshot(t) ==
    /\ gc.pc[t] = "loaded"
    /\ gc' = [gc EXCEPT !.read[t] = gc.heap[gc.ai[t]]]
    /\ UNCHANGED loopVars
    /\ UNCHANGED <<merge, vec, pick>>

\* augment() on thread t returns: the guard is released
LeaveGuard(t) ==
    /\ gc.pc[t] # "out"
    /\ gc' = [gc EXCEPT
            !.pc[t] = "out", !.ai[t] = 0, !.read[t] = "none",
            !.deferred = {[d EXCEPT !.waiting = @ \ {t}] : d \in gc.deferred}]
    /\ UNCHANGED loopVars
    /\ UNCHANGED <<merge, vec, pick>>

GcInit ==
    /\ augmentors = <<>>
    /\ allAugmentors = <<>>
    /\ augmenting = <<>>
    /\ inbox = <<>>
    /\ idle_ = 1
    /\ now = 0
    /\ checked = FALSE
    /\ crashed = FALSE
    /\ entries = <<>>
    /\ sent = <<>>
    /\ hist = NoHist
    /\ merge = NoMerge
    /\ gc = GcStart
    /\ vec = VecStart(0)
    /\ pick = NoPick

GcNext ==
    \/ NewSnapshot
    \/ FillSnapshot
    \/ Publish
    \/ DeferCurrent
    \/ RunDeferred
    \/ \E t \in Producers :
            EnterGuard(t) \/ LoadSnapshot(t) \/ ReadSnapshot(t) \/ LeaveGuard(t)

\* the loop thread republishing the snapshot while producers run augment()
GcSpec == GcInit /\ [][GcNext]_vars

\* pickInstance(aug) on its own: the call returned
PickRun ==
    /\ pick.pc = "start"
    /\ LET p == PickInstance(pick.instances)
       IN pick' = [pick EXCEPT !.pc = "done", !.instance = p.instance,
                               !.after = p.instances]
    /\ UNCHANGED loopVars
    /\ UNCHANGED <<merge, gc, vec>>

\* the next call of pickInstance: another augmentor's instances
PickAgain ==
    /\ pick.pc = "done"
    /\ \E instances \in PickInputs :
            pick' = [pc |-> "start", instances |-> instances, instance |-> 0,
                     after |-> instances]
    /\ UNCHANGED loopVars
    /\ UNCHANGED <<merge, gc, vec>>

PickInit ==
    /\ augmentors = <<>>
    /\ allAugmentors = <<>>
    /\ augmenting = <<>>
    /\ inbox = <<>>
    /\ idle_ = 1
    /\ now = 0
    /\ checked = FALSE
    /\ crashed = FALSE
    /\ entries = <<>>
    /\ sent = <<>>
    /\ hist = NoHist
    /\ merge = NoMerge
    /\ gc = GcStart
    /\ vec = VecStart(0)
    /\ \E instances \in PickInputs :
            pick = [pc |-> "start", instances |-> instances, instance |-> 0,
                    after |-> instances]

PickNext == PickRun \/ PickAgain

\* the calls of pickInstance over every instance sequence
PickSpec == PickInit /\ [][PickNext]_vars

\* v.push_back(d); a write outside the storage can also kill the process
VecPushBack(d) ==
    /\ vec.built /\ ~vec.crashed
    /\ vec.v.size_ < MaxVecSize
    /\ \E dies \in {FALSE, PushBackOutOfBounds(vec.v, vec.Internal)} :
            IF dies
            THEN vec' = [vec EXCEPT !.crashed = TRUE]
            ELSE \E o \in PushBack(vec.v, vec.Internal, d) :
                    vec' = [vec EXCEPT !.v = o]
    /\ UNCHANGED loopVars
    /\ UNCHANGED <<merge, gc, pick>>

\* v.pop_back(): throws on an empty vector
VecPopBack ==
    /\ vec.built /\ ~vec.crashed
    /\ IF vec.v.size_ = 0
       THEN vec' = vec
       ELSE vec' = [vec EXCEPT !.v = PopBack(vec.v)]
    /\ UNCHANGED loopVars
    /\ UNCHANGED <<merge, gc, pick>>

\* v.insert(v.begin() + index, f, l) with [f, l) holding xs: throws on an
\* index past the end
VecInsertRange(index, xs) ==
    /\ vec.built /\ ~vec.crashed
    /\ vec.v.size_ + Len(xs) <= MaxVecSize
    /\ IF index > vec.v.size_ /\ Len(xs) > 0
       THEN vec' = vec
       ELSE vec' = [vec EXCEPT
                !.v = InsertRange(vec.v, vec.Internal, index, xs)]
    /\ UNCHANGED loopVars
    /\ UNCHANGED <<merge, gc, pick>>

\* v.insert(v.begin() + index, x) in the program's text
VecInsert(index, x) ==
    /\ vec.built /\ ~vec.crashed
    /\ index <= vec.v.size_
    /\ vec.v.size_ < MaxVecSize
    /\ IF InsertWellFormed
       THEN vec' = [vec EXCEPT
                !.v = InsertRange(vec.v, vec.Internal, index, <<x>>)]
       ELSE vec' = [vec EXCEPT !.built = FALSE]
    /\ UNCHANGED loopVars
    /\ UNCHANGED <<merge, gc, pick>>

\* v.erase(v.begin() + first, v.begin() + last)
VecErase(first, last) ==
    /\ vec.built /\ ~vec.crashed
    /\ first <= last
    /\ last <= vec.v.size_
    /\ vec' = [vec EXCEPT !.v = Erase(vec.v, vec.Internal, first, last)]
    /\ UNCHANGED loopVars
    /\ UNCHANGED <<merge, gc, pick>>

\* v.resize(new_size, new_element)
VecResize(new_size, new_element) ==
    /\ vec.built /\ ~vec.crashed
    /\ vec' = [vec EXCEPT
            !.v = Resize(vec.v, vec.Internal, new_size, new_element)]
    /\ UNCHANGED loopVars
    /\ UNCHANGED <<merge, gc, pick>>

\* v.reserve(new_capacity)
VecReserve(new_capacity) ==
    /\ vec.built /\ ~vec.crashed
    /\ vec' = [vec EXCEPT !.v = Reserve(vec.v, vec.Internal, new_capacity)]
    /\ UNCHANGED loopVars
    /\ UNCHANGED <<merge, gc, pick>>

\* v.clear()
VecClear ==
    /\ vec.built /\ ~vec.crashed
    /\ vec' = [vec EXCEPT !.v = ClearVector(vec.v)]
    /\ UNCHANGED loopVars
    /\ UNCHANGED <<merge, gc, pick>>

\* v.swap(w)
VecSwap ==
    /\ vec.built /\ ~vec.crashed
    /\ LET r == SwapVectors(vec.v, vec.w)
       IN vec' = [vec EXCEPT !.v = r.a, !.w = r.b]
    /\ UNCHANGED loopVars
    /\ UNCHANGED <<merge, gc, pick>>

\* sequences of at most two element values
RangeInputs ==
    {<<>>} \cup {<<x>> : x \in DataValues}
           \cup {<<x, y>> : x \in DataValues, y \in DataValues}

VecInit ==
    /\ augmentors = <<>>
    /\ allAugmentors = <<>>
    /\ augmenting = <<>>
    /\ inbox = <<>>
    /\ idle_ = 1
    /\ now = 0
    /\ checked = FALSE
    /\ crashed = FALSE
    /\ entries = <<>>
    /\ sent = <<>>
    /\ hist = NoHist
    /\ merge = NoMerge
    /\ gc = GcStart
    /\ \E Internal \in 0..MaxInternal : vec = VecStart(Internal)
    /\ pick = NoPick

VecNext ==
    \/ \E d \in DataValues : VecPushBack(d)
    \/ VecPopBack
    \/ \E index \in 0..MaxVecSize, xs \in RangeInputs :
            VecInsertRange(index, xs)
    \/ \E index \in 0..MaxVecSize, x \in DataValues : VecInsert(index, x)
    \/ \E first \in 0..MaxVecSize, last \in 0..MaxVecSize :
            VecErase(first, last)
    \/ \E new_size \in 0..MaxVecSize, new_element \in DataValues :
            VecResize(new_size, new_element)
    \/ \E new_capacity \in 0..MaxReserve : VecReserve(new_capacity)
    \/ VecClear
    \/ VecSwap

\* every sequence of operations on two compact_vectors of one inline
\* capacity
VecSpec == VecInit /\ [][VecNext]_vars

\* the runs of a caller that also calls doDisconnection(addr, aug) directly,
\* with the arguments of each operation recorded
UnitInit ==
    /\ augmentors = <<>>
    /\ allAugmentors = <<>>
    /\ augmenting = <<>>
    /\ inbox = <<>>
    /\ idle_ = 1
    /\ now = 0
    /\ checked = FALSE
    /\ crashed = FALSE
    /\ entries = <<>>
    /\ sent = <<>>
    /\ hist = [NoHist EXCEPT !.on = TRUE, !.full = TRUE]
    /\ merge = NoMerge
    /\ gc = GcStart
    /\ vec = VecStart(0)
    /\ pick = NoPick

UnitNext ==
    \/ \E message \in Messages : HandleAugmentorMessage(message)
    \/ \E addr \in Addrs : DoDisconnection(addr)
    \/ \E addr \in Addrs, aug \in Names : DoDisconnectionNamed(addr, aug)

UnitSpec == UnitInit /\ [][UnitNext]_vars

\* the runs in which augmentors answer with every kind of payload, each
\* handler's frame and outcome recorded
ResponseMessages ==
    {<<a, "CONFIG", "1.0", n>> : a \in Addrs, n \in Names} \cup PayloadFrames

ResponseNext ==
    \/ \E pg \in PotentialGroupsInputs, id \in Ids : Augment(pg, id, MaxTime)
    \/ DoAugmentation
    \/ \E message \in ResponseMessages : HandleAugmentorMessage(message)

ResponseSpec == UnitInit /\ [][ResponseNext]_vars

----------------------------------------------------------------------------
(* Properties *)

\* at the current time, a callback that has not run is not yet later than
\* one checkExpiries period after deadline d
InTime(d) == now <= d \/ (now = d + 1 /\ ~checked)

\* C1, as stated: for every augment() call, while the loop thread keeps
\* draining the inbox and running checkExpiries, onFinished runs exactly
\* once, and no later than one checkExpiries period after the entry's
\* timeout (asked here only of the calls whose timeout had not passed when
\* they were made)
C1_OnceByTimeout ==
    \A e \in 1..Len(entries) :
        /\ entries[e].fires <= 1
        /\ (entries[e].fires = 0 /\ entries[e].due = entries[e].timeout)
                => InTime(entries[e].timeout)

\* C1, amended: for every augment() call whose entry doAugmentation does not
\* drop as a duplicate, onFinished runs exactly once, and no later than one
\* checkExpiries period after the later of the entry's timeout and the call
C1_OnceByDeadline ==
    \A e \in 1..Len(entries) :
        /\ entries[e].fires <= 1
        /\ (entries[e].fires = 0 /\ entries[e].state # "dropped")
                => InTime(entries[e].due)

\* C1: an entry went through the inbox and the deadline index and its
\* callback ran from checkExpiries, while another call's entry was dropped
C1_Witness ==
    /\ \E e \in 1..Len(entries) :
            entries[e].state = "expired" /\ entries[e].fires = 1
    /\ \E e \in 1..Len(entries) : entries[e].state = "dropped"

\* C2: no entry's onFinished runs more than once, under any interleaving of
\* augment, inbox drain, RESPONSE frames, checkExpiries, CONFIG and
\* disconnection
C2_AtMostOnce == \A e \in 1..Len(entries) : entries[e].fires <= 1

\* C2: one entry was completed by a RESPONSE and another expired, each
\* callback run once; the clock is at its end and the index is empty
C2_Witness ==
    /\ \E e \in 1..Len(entries) :
            entries[e].state = "completed" /\ entries[e].fires = 1
    /\ \E e \in 1..Len(entries) :
            entries[e].state = "expired" /\ entries[e].fires = 1
    /\ now = MaxTime
    /\ augmenting = <<>>

\* C3: the step of doAugmentation on an entry whose auction id is already in
\* the deadline index leaves the index, the directory (every numInFlight)
\* and the outbound frames alone
C3_DuplicateStep ==
    (DoAugmentation /\ Head(inbox).id \in DOMAIN augmenting)
        => /\ augmenting' = augmenting
           /\ augmentors' = augmentors
           /\ sent' = <<>>
           /\ inbox' = Tail(inbox)

\* C3: a dropped entry's callback has not run, and the entry it duplicated
\* is the one in the index until its own callback runs, in time
C3_DuplicateState ==
    \A e \in 1..Len(entries) :
        entries[e].state = "dropped" =>
            /\ entries[e].fires = 0
            /\ LET o == entries[e].dupOf
               IN /\ o \in 1..Len(entries)
                  /\ o # e
                  /\ entries[o].fires <= 1
                  /\ entries[o].fires = 0 =>
                        /\ InTime(entries[o].due)
                        /\ \E id \in DOMAIN augmenting : augmenting[id].entry = o

\* C3: a duplicate auction id is dropped by doAugmentation: the index keeps
\* the original entry, no AUGMENT frame is sent and no numInFlight changes,
\* the duplicate's callback never runs and the original's still does
C3_DuplicateDropped == [][C3_DuplicateStep]_vars /\ []C3_DuplicateState

\* C3: a duplicate was dropped and the entry it duplicated has had its
\* callback run
C3_Witness ==
    \E e \in 1..Len(entries) :
        /\ entries[e].state = "dropped"
        /\ entries[e].fires = 0
        /\ entries[entries[e].dupOf].fires = 1

\* instances has an instance at addr
HasInstance(instances, addr) == FindInstance(instances, addr) # 0

\* C4: after every loop-thread handler, every instance i of the directory
\* has 0 <= i.numInFlight <= i.maxInFlight
C4_InFlightInRange ==
    \A n \in DOMAIN augmentors : \A i \in 1..Len(augmentors[n]) :
        /\ 0 <= augmentors[n][i].numInFlight
        /\ augmentors[n][i].numInFlight <= augmentors[n][i].maxInFlight

\* C5: after any sequence of CONFIG and disconnection events the published
\* snapshot is strictly sorted by name, holds no name twice, and every
\* augmentor it lists has at least one instance
C5_SnapshotSorted ==
    /\ \A i, j \in 1..Len(allAugmentors) :
            i < j => allAugmentors[i] < allAugmentors[j]
    /\ \A i \in 1..Len(allAugmentors) :
            /\ allAugmentors[i] \in DOMAIN augmentors
            /\ augmentors[allAugmentors[i]] # <<>>

\* C5: a disconnection took an augmentor out of a directory of two, and the
\* snapshot was published again
C5_Witness ==
    /\ hist.op = "doDisconnection"
    /\ hist.note = "removed"
    /\ Cardinality(DOMAIN hist.pre) = 2
    /\ Len(allAugmentors) = 1

\* C6: after doDisconnection(addr) with no augmentor name no augmentor has
\* an instance at addr and no augmentor is left without instances; with a
\* name given the same holds of that augmentor and the others are untouched
C6_Disconnected ==
    hist.op = "doDisconnection" =>
        /\ \A n \in DOMAIN augmentors : augmentors[n] # <<>>
        /\ IF hist.name = EmptyName
           THEN \A n \in DOMAIN augmentors :
                    ~HasInstance(augmentors[n], hist.addr)
           ELSE /\ hist.name \in DOMAIN augmentors =>
                        ~HasInstance(augmentors[hist.name], hist.addr)
                /\ \A n \in (DOMAIN hist.pre) \ {hist.name} :
                        /\ n \in DOMAIN augmentors
                        /\ augmentors[n] = hist.pre[n]

\* C7: after any sequence of CONFIG and disconnection events each augmentor
\* of the directory has at most one instance per address
C7_OneInstancePerAddr ==
    \A n \in DOMAIN augmentors : \A i, j \in 1..Len(augmentors[n]) :
        augmentors[n][i].addr = augmentors[n][j].addr => i = j

\* C7: a CONFIG came from an (addr, name) pair that was registered, next to
\* another instance of the same augmentor
C7_Witness ==
    /\ hist.op = "doConfig"
    /\ hist.note = "replaced"
    /\ Len(hist.pre[hist.name]) = 2
    /\ Len(augmentors[hist.name]) = 2

\* the maxInFlight a CONFIG frame asks for: its fifth element when there is
\* one and it is not negative, 3000 otherwise
C8_Asked(message) ==
    IF Len(message) = 5
    THEN IF At(message, 4) >= 0 THEN At(message, 4) ELSE DefaultMaxInFlight
    ELSE DefaultMaxInFlight

\* the directory dir holds an instance of name at addr with this maxInFlight
Registered(dir, name, addr, maxInFlight) ==
    IF name \in DOMAIN dir
    THEN \E i \in 1..Len(dir[name]) :
            /\ dir[name][i].addr = addr
            /\ dir[name][i].maxInFlight = maxInFlight
    ELSE FALSE

\* C8: doConfig on a CONFIG frame of four or five elements, version 1.0
\* and a name, completes, registers the instance with the maxInFlight the
\* frame asks for (3000 when absent or negative) and replies CONFIGOK
C8_ConfigRegisters ==
    (hist.op = "doConfig" /\ hist.frame \in ConfigFrames) =>
        /\ ~crashed
        /\ hist.note \in {"added", "replaced"}
        /\ Registered(augmentors, At(hist.frame, 3), At(hist.frame, 0),
                      C8_Asked(hist.frame))
        /\ sent = <<[type |-> "CONFIGOK", addr |-> At(hist.frame, 0),
                     name |-> EmptyName]>>

\* doDisconnection(addr, name) has just run, right after a doConfig(addr,
\* name) that returned or threw
RoundTrip ==
    /\ hist.op = "doDisconnection"
    /\ hist.name # EmptyName
    /\ hist.last.op = "doConfig"
    /\ hist.last.note \in {"added", "replaced", "throw"}
    /\ hist.last.addr = hist.addr
    /\ hist.last.name = hist.name

\* name had an instance at addr before the doConfig of the round trip
WasRegistered ==
    IF hist.name \in DOMAIN hist.last.pre
    THEN HasInstance(hist.last.pre[hist.name], hist.addr)
    ELSE FALSE

\* C9, as stated: doConfig(addr, name) followed by doDisconnection(addr,
\* name) leaves the directory as it was before the doConfig
C9_RoundTrip == RoundTrip => augmentors = hist.last.pre

\* C9, amended: doConfig(addr, name) followed by doDisconnection(addr,
\* name) leaves the directory as it was before the doConfig, when name had
\* no instance at addr before the doConfig
C9_RoundTripFresh ==
    (RoundTrip /\ ~WasRegistered) => augmentors = hist.last.pre

\* C9: the round trip was made, the doConfig adding an instance, from a
\* directory where name had an instance at another address and none at addr
C9_Witness ==
    /\ RoundTrip
    /\ ~WasRegistered
    /\ hist.last.note = "added"
    /\ hist.name \in DOMAIN hist.last.pre
    /\ augmentors = hist.last.pre

\* what augment(potentialGroups, ...) must do: with no needed augmentor in
\* the snapshot the callback runs in the call and nothing else changes;
\* otherwise one entry is pushed and the callback is left to the loop
C10_AugmentStep(potentialGroups) ==
    LET e == entries'[Len(entries')]
    IN /\ Len(entries') = Len(entries) + 1
       /\ augmenting' = augmenting
       /\ augmentors' = augmentors
       /\ IF Needed(potentialGroups) \cap Range(allAugmentors) = {}
          THEN /\ e.fires = 1
               /\ inbox' = inbox
          ELSE /\ e.fires = 0
               /\ Len(inbox') = Len(inbox) + 1
               /\ SubSeq(inbox', 1, Len(inbox)) = inbox
               /\ inbox'[Len(inbox')].entry = Len(entries')

\* C10: augment() with an empty dispatch set runs onFinished once before it
\* returns and pushes nothing, so the deadline index, the directory and
\* every numInFlight are unchanged; with a non-empty dispatch set it pushes
\* exactly one entry and does not run onFinished itself
C10_SyncOrPush ==
    [][\A pg \in PotentialGroupsInputs, id \in Ids, t \in 0..MaxTime :
          Augment(pg, id, t) => C10_AugmentStep(pg)]_vars

\* C10: with augmentors in the snapshot, one call found none it needed and
\* ran its callback, and another pushed its entry
C10_Witness ==
    /\ allAugmentors # <<>>
    /\ \E e \in 1..Len(entries) :
            entries[e].state = "sync" /\ entries[e].fires = 1
    /\ \E e \in 1..Len(entries) :
            entries[e].state = "queued" /\ entries[e].fires = 0
    /\ Len(inbox) = 1

\* C11: for every set of needed names and every published snapshot, the
\* outstanding set augment() builds by its merge is the intersection of the
\* needed names with the snapshot's names
C11_MergeIsIntersection ==
    merge.pc = "done" =>
        merge.outstanding = Needed(merge.potentialGroups) \cap Range(merge.ai)

\* C11: a merge ended that took some of the needed names and left others,
\* over a snapshot with names that were not needed
C11_Witness ==
    /\ merge.pc = "done"
    /\ merge.outstanding # {}
    /\ merge.outstanding # Needed(merge.potentialGroups)
    /\ merge.outstanding # Range(merge.ai)
    /\ Len(merge.potentialGroups) = 2

\* the time of the last checkExpiries run, in the runs where the loop
\* thread keeps up: this period's, or else the period's before (-1: never)
LastCheck == IF checked THEN now ELSE now - 1

\* C12, as stated: after every loop-thread handler, an indexed auction id
\* has a non-empty outstanding set and a timeout that has not passed: no
\* entry whose timeout is at or before the time of the last checkExpiries
\* run remains indexed
C12_IndexedIffLive ==
    \A id \in DOMAIN augmenting :
        /\ augmenting[id].outstanding # {}
        /\ augmenting[id].timeout > LastCheck

\* after every loop-thread handler, an indexed entry has a non-empty
\* outstanding set, its callback has not run, and it is not later than one
\* checkExpiries period after the later of its timeout and its call
C12_IndexedState ==
    \A id \in DOMAIN augmenting :
        LET e == augmenting[id].entry
        IN /\ augmenting[id].outstanding # {}
           /\ e \in 1..Len(entries)
           /\ entries[e].fires = 0
           /\ entries[e].state = "pending"
           /\ entries[e].timeout = augmenting[id].timeout
           /\ InTime(entries[e].due)

\* checkExpiries leaves no entry indexed whose timeout is at or before the
\* time of its run
C12_CheckExpiriesStep ==
    TimedCheckExpiries =>
        \A id \in DOMAIN augmenting' : augmenting'[id].timeout > now

\* C12, amended: after every loop-thread handler every indexed auction id
\* has a non-empty outstanding set and a callback that has not run; right
\* after a checkExpiries run no indexed entry has a timeout at or before
\* the time of that run; an entry doAugmentation inserts between two runs
\* with such a timeout stays indexed until the next run
C12_IndexedLive == []C12_IndexedState /\ [][C12_CheckExpiriesStep]_vars

\* C12: checkExpiries has run in this period, and an entry inserted since
\* is indexed with a timeout that has passed
C12_Witness ==
    /\ checked
    /\ \E id \in DOMAIN augmenting : augmenting[id].timeout <= now
    /\ \E e \in 1..Len(entries) : entries[e].state = "expired"

\* on every index the loop reaches, doResponse for an auction id that is
\* not in it records augmentation.unknown, runs no callback, merges into
\* no auction and hands the index back as it was
C13_UnknownIndex ==
    \A id \in Ids \ DOMAIN augmenting : \A augmentor \in Names :
        LET r == DoResponseIndex(augmenting, id, augmentor)
        IN /\ r.hits = {"augmentation.unknown"}
           /\ r.fired = {}
           /\ r.merged = {}
           /\ r.index = augmenting

\* the step of a RESPONSE that recorded augmentation.unknown leaves the
\* index, the inbox and every entry's callback count alone, and sends
\* nothing
C13_UnknownStep ==
    (hist'.op = "doResponse" /\ hist'.note = "unknown")
        => /\ augmenting' = augmenting
           /\ entries' = entries
           /\ inbox' = inbox
           /\ sent' = <<>>

\* C13: a RESPONSE frame whose auction id is not in the deadline index
\* increments augmentation.unknown, fires no callback, merges nothing and
\* leaves the index unchanged
C13_UnknownResponse == []C13_UnknownIndex /\ [][C13_UnknownStep]_vars

\* C13: a RESPONSE came for an auction whose entry had expired, and another
\* for one that had completed
C13_Witness ==
    /\ hist.op = "doResponse"
    /\ hist.note = "unknown"
    /\ augmenting = <<>>
    /\ \E e \in 1..Len(entries) : entries[e].state = "expired"
    /\ \E e \in 1..Len(entries) : entries[e].state = "completed"

\* no instance of the augmentor has numInFlight < maxInFlight
AllBusy(instances) ==
    \A i \in 1..Len(instances) :
        instances[i].numInFlight >= instances[i].maxInFlight

\* the step of doAugmentation that inserts an entry: for a name of its
\* outstanding set whose instances are all at maxInFlight, no AUGMENT frame
\* goes out and no counter of that augmentor moves, and the entry is in the
\* index with the name outstanding
C14_DispatchStep ==
    (/\ DoAugmentation
     /\ inbox # <<>>
     /\ ~crashed'
     /\ ~IsDuplicate(augmenting, Head(inbox).id))
        => \A name \in Head(inbox).outstanding :
            (name \in DOMAIN augmentors /\ AllBusy(augmentors[name]))
                => /\ \A f \in 1..Len(sent') : sent'[f].name # name
                   /\ augmentors'[name] = augmentors[name]
                   /\ Head(inbox).id \in DOMAIN augmenting'
                   /\ augmenting'[Head(inbox).id].entry = Head(inbox).entry
                   /\ name \in augmenting'[Head(inbox).id].outstanding
                   /\ name \in entries'[Head(inbox).entry].unserved

\* the step that takes such an entry out of the index runs its callback
\* once: checkExpiries at or after its timeout, or doResponse erasing the
\* last outstanding name
C14_RemovalStep ==
    \A e \in 1..Len(entries) :
        (/\ ~crashed'
         /\ entries[e].unserved # {}
         /\ entries[e].state = "pending"
         /\ entries'[e].state # "pending")
            => /\ entries'[e].fires = 1
               /\ \E id \in DOMAIN augmenting :
                    /\ augmenting[id].entry = e
                    /\ id \notin DOMAIN augmenting'
                    /\ \/ /\ entries'[e].state = "expired"
                          /\ augmenting[id].timeout <= now
                       \/ /\ entries'[e].state = "completed"
                          /\ Cardinality(augmenting[id].outstanding) = 1

\* such an entry stays in the index until its callback has run, no later
\* than one checkExpiries period after its deadline
C14_UnservedState ==
    \A e \in 1..Len(entries) :
        entries[e].unserved # {} =>
            /\ entries[e].fires <= 1
            /\ entries[e].fires = 0 =>
                /\ entries[e].state = "pending"
                /\ InTime(entries[e].due)
                /\ \E id \in DOMAIN augmenting : augmenting[id].entry = e

\* C14, as stated: an entry inserted with a name for which no instance was
\* available is removed by checkExpiries, its callback fired once at its
\* timeout
C14_RemovedByCheckExpiries ==
    \A e \in 1..Len(entries) :
        entries[e].unserved # {} =>
            /\ entries[e].fires <= 1
            /\ entries[e].state \in {"pending", "expired"}
            /\ entries[e].fires = 0 => InTime(entries[e].due)

\* C14, amended: when doAugmentation finds no instance with numInFlight <
\* maxInFlight for a name, it sends no AUGMENT frame and increments no
\* counter for that name and still inserts the entry with the name
\* outstanding; the entry's callback then runs once, from checkExpiries
\* within one period of its deadline or before that from doResponse when
\* RESPONSE frames erase its last outstanding name
C14_NoAvailableInstance ==
    []C14_UnservedState /\ [][C14_DispatchStep /\ C14_RemovalStep]_vars

\* C14: an entry inserted without an available instance has expired
C14_Witness ==
    \E e \in 1..Len(entries) :
        /\ entries[e].unserved # {}
        /\ entries[e].state = "expired"
        /\ entries[e].fires = 1

\* idle_ is set only while the deadline index is empty
C15_IdleMeansIndexEmpty == SleepUntilIdleReturns => augmenting = <<>>

\* the step of checkExpiries that leaves the index empty leaves idle_ set
C15_CheckExpiriesWakes ==
    [][(CheckExpiries /\ augmenting' = <<>>) => idle_' = 1]_vars

\* C15: sleepUntilIdle() can return only in states where the deadline index
\* is empty and no entry pushed by augment() is still waiting in the inbox
C15_IdleMeansQuiet ==
    SleepUntilIdleReturns => (augmenting = <<>> /\ inbox = <<>>)

\* a producer that has loaded the pointer under its guard holds a snapshot
\* that is built, and every read it made found it built
C16_ReadsBuilt ==
    \A t \in Producers :
        /\ gc.pc[t] = "loaded" => gc.heap[gc.ai[t]] = "built"
        /\ gc.read[t] \in {"none", "built"}

\* the step that deletes a snapshot: no producer inside its guard holds it
C16_DeleteStep ==
    \A a \in Snapshots :
        (gc.heap[a] = "built" /\ gc'.heap[a] # "built")
            => \A t \in Producers : gc.pc[t] = "loaded" => gc.ai[t] # a

\* C16: under any interleaving of producers running augment() with the loop
\* thread running updateAllAugmentors(), a producer that loads the snapshot
\* pointer under its shared guard reads only a fully built snapshot that has
\* not been freed; the previous snapshot is deleted only after the guards
\* taken before the publication are released
C16_NoFreedSnapshot == []C16_ReadsBuilt /\ [][C16_DeleteStep]_vars

\* C16: a producer is reading the snapshot it loaded before a publication
\* whose delete is now deferred, another one holds the new snapshot, and the
\* loop thread is building the next one
C16_Witness ==
    /\ \E t \in Producers :
        /\ gc.pc[t] = "loaded"
        /\ gc.ai[t] # gc.allAugmentors
        /\ gc.read[t] = "built"
    /\ \E t \in Producers :
        /\ gc.pc[t] = "loaded"
        /\ gc.ai[t] = gc.allAugmentors
    /\ gc.newInfo # 0
    /\ \E d \in gc.deferred : d.waiting # {}

\* a frame with a type at index 1 that the handlers are to reject: a
\* RESPONSE of a size other than 7 or a version other than 1.0, a CONFIG of
\* a size outside 4..5, another version or an empty name, or another type
Malformed(message) ==
    /\ Len(message) >= 2
    /\ IF At(message, 1) = "RESPONSE"
       THEN Len(message) # 7 \/ At(message, 2) # "1.0"
       ELSE IF At(message, 1) = "CONFIG"
       THEN \/ Len(message) < 4
            \/ Len(message) > 5
            \/ At(message, 2) # "1.0"
            \/ At(message, 3) = EmptyName
       ELSE TRUE

\* the malformed frames that are not CONFIG frames of five elements
RejectedFrames ==
    {m \in MalformedFrames :
        Malformed(m) /\ ~(At(m, 1) = "CONFIG" /\ Len(m) = 5)}

\* the step of handleAugmentorMessage on a malformed frame that is not a
\* CONFIG of five elements changes nothing and sends nothing
C17_RejectStep ==
    [][\A m \in RejectedFrames :
          HandleAugmentorMessage(m)
              => /\ UNCHANGED <<augmentors, allAugmentors, augmenting, inbox,
                                idle_, entries, crashed>>
                 /\ sent' = <<>>]_vars

\* C17: a malformed inbound frame is rejected with an error and leaves the
\* worker directory, the published snapshot, every numInFlight and the
\* deadline index unchanged, and fires no callback
C17_MalformedRejected ==
    (hist.op # "init" /\ hist.frame # <<>> /\ Malformed(hist.frame)) =>
        /\ ~crashed
        /\ hist.note = "throw"
        /\ augmentors = hist.pre
        /\ augmenting = <<>>
        /\ sent = <<>>

\* the callbacks that augment() ran itself ran outside the lock
C18_SyncOutsideLock ==
    \A e \in 1..Len(entries) :
        entries[e].state = "sync" => (entries[e].fires = 1 /\ ~entries[e].locked)

\* C18: onFinished is never invoked while the dispatcher mutex is held: on
\* the synchronous path in augment(), on completion in doResponse and on
\* expiry in checkExpiries
C18_CallbackOutsideLock ==
    \A e \in 1..Len(entries) : entries[e].fires > 0 => ~entries[e].locked

\* the capacity invariants of one vector
CapacityInvariant(c, Internal) ==
    /\ c.is_internal_ => Capacity(c, Internal) = Internal
    /\ ~c.is_internal_ => Capacity(c, Internal) = c.allocated
    /\ c.size_ <= Capacity(c, Internal)
    /\ Capacity(c, Internal) <= MaxSizeValue

\* the capacity invariants hold of the vectors of inline capacity one or
\* more
C19_CapacityFromOne ==
    (vec.Internal >= 1 /\ ~vec.crashed) =>
        /\ CapacityInvariant(vec.v, vec.Internal)
        /\ CapacityInvariant(vec.w, vec.Internal)

\* C19: after any sequence of push_back, pop_back, insert, erase, resize,
\* reserve, clear and swap on a compact_vector of inline capacity N, N = 0
\* included, capacity() = N while the storage is inline, capacity() is the
\* allocated element count while it is external, and size() <= capacity()
\* <= max_size()
C19_CapacityInvariant ==
    ~vec.crashed =>
        /\ CapacityInvariant(vec.v, vec.Internal)
        /\ CapacityInvariant(vec.w, vec.Internal)

\* inserting one element through the range insert and erasing it again
\* gives a vector equal by value
C20_RangeRoundTrip ==
    (vec.built /\ ~vec.crashed /\ vec.v.size_ < MaxVecSize) =>
        \A index \in 0..vec.v.size_ : \A x \in DataValues :
            EqualByValue(
                Erase(InsertRange(vec.v, vec.Internal, index, <<x>>),
                      vec.Internal, index, index + 1),
                vec.v)

\* the operations that can move the elements between inline and external
\* storage keep the elements that stay, in their order
C20_MovesPreserve ==
    [][/\ \A n \in 0..MaxReserve :
            VecReserve(n) => vec'.v.elems = vec.v.elems
       /\ VecSwap => (vec'.v.elems = vec.w.elems /\ vec'.w.elems = vec.v.elems)
       /\ \A d \in DataValues :
            (VecPushBack(d) /\ ~vec'.crashed)
                => Slice(vec'.v.elems, 0, vec.v.size_) = vec.v.elems
       /\ \A first \in 0..MaxVecSize, last \in 0..MaxVecSize :
            VecErase(first, last)
                => vec'.v.elems = Slice(vec.v.elems, 0, first)
                                  \o Slice(vec.v.elems, last, vec.v.size_)
       /\ \A n \in 0..MaxVecSize, x \in DataValues :
            VecResize(n, x)
                => Slice(vec'.v.elems, 0, Min(n, vec.v.size_))
                   = Slice(vec.v.elems, 0, Min(n, vec.v.size_))
      ]_vars

\* the step of v.insert(v.begin() + index, x): the program builds, and
\* erasing the element at index afterwards gives a vector equal to v
C20_InsertEraseStep ==
    \A index \in 0..MaxVecSize, x \in DataValues :
        VecInsert(index, x)
            => /\ vec'.built
               /\ EqualByValue(Erase(vec'.v, vec.Internal, index, index + 1),
                               vec.v)

\* C20: for every compact_vector v, position i in 0..size and element x,
\* inserting x at i and then erasing the element at i yields a vector equal
\* by value to v
C20_InsertErase == [][C20_InsertEraseStep]_vars

\* erase(begin() + first, begin() + last) on the external vector c, when
\* it ends with size() <= Internal, leaves the storage inline
ErasedInline(c, Internal, first, last) ==
    LET r == Erase(c, Internal, first, last)
    IN (~c.is_internal_ /\ r.size_ <= Internal)
            => (r.is_internal_ /\ Capacity(r, Internal) = Internal)

\* a shrinking resize(new_size) on the external vector c, when it ends with
\* size() <= Internal, leaves the storage inline
ResizedInline(c, Internal, new_size, new_element) ==
    LET r == Resize(c, Internal, new_size, new_element)
    IN (~c.is_internal_ /\ new_size < c.size_ /\ r.size_ <= Internal)
            => (r.is_internal_ /\ Capacity(r, Internal) = Internal)

\* on every vector the operations reach, erase of a range that is not empty
\* and a shrinking resize migrate back to inline storage
C21_MigratesUnlessEmptyRange ==
    (vec.built /\ ~vec.crashed) =>
        /\ \A first \in 0..vec.v.size_ : \A last \in first..vec.v.size_ :
                first < last => ErasedInline(vec.v, vec.Internal, first, last)
        /\ \A new_size \in 0..MaxVecSize : \A new_element \in DataValues :
                ResizedInline(vec.v, vec.Internal, new_size, new_element)

\* C21: whenever erase(first, last) or a shrinking resize(new_size) returns
\* with size() <= N on a vector whose storage was external, the storage is
\* inline afterwards, for every valid range, an empty one included, and for
\* vectors made external by reserve or left external by pop_back
C21_MigratesInline ==
    (vec.built /\ ~vec.crashed) =>
        /\ \A first \in 0..vec.v.size_ : \A last \in first..vec.v.size_ :
                ErasedInline(vec.v, vec.Internal, first, last)
        /\ \A new_size \in 0..MaxVecSize : \A new_element \in DataValues :
                ResizedInline(vec.v, vec.Internal, new_size, new_element)

\* on every index the loop reaches, doResponse for augmentor x about an
\* indexed auction with outstanding set S: if S \ {x} is not empty the
\* entry stays with S \ {x} outstanding and no callback runs, otherwise the
\* entry's callback runs and the entry leaves the index; no other entry is
\* touched
C22_ResponseIndex ==
    \A id \in DOMAIN augmenting : \A x \in Names :
        LET S == augmenting[id].outstanding
            r == DoResponseIndex(augmenting, id, x)
        IN IF S \ {x} # {}
           THEN /\ r.fired = {}
                /\ r.index = [augmenting EXCEPT ![id].outstanding = S \ {x}]
           ELSE /\ r.fired = {augmenting[id].entry}
                /\ DOMAIN r.index = (DOMAIN augmenting) \ {id}
                /\ \A i \in DOMAIN r.index : r.index[i] = augmenting[i]

\* the step of a RESPONSE that found its auction: a partial one leaves
\* every entry as it was, pending; a completing one takes one pending entry
\* with a single outstanding name out of the index and runs its callback
\* once; no entry ever goes back to queued
C22_ResponseStep ==
    /\ (hist'.op = "doResponse" /\ hist'.note = "partial")
        => /\ entries' = entries
           /\ DOMAIN augmenting' = DOMAIN augmenting
           /\ \A id \in DOMAIN augmenting :
                /\ augmenting'[id].outstanding # {}
                /\ augmenting'[id].outstanding \subseteq augmenting[id].outstanding
                /\ entries[augmenting[id].entry].state = "pending"
    /\ (hist'.op = "doResponse" /\ hist'.note = "completed")
        => \E id \in DOMAIN augmenting :
            LET e == augmenting[id].entry
            IN /\ id \notin DOMAIN augmenting'
               /\ Cardinality(augmenting[id].outstanding) = 1
               /\ entries[e].state = "pending"
               /\ entries'[e].state = "completed"
               /\ entries'[e].fires = entries[e].fires + 1
               /\ \A o \in 1..Len(entries) : o # e => entries'[o] = entries[o]
    /\ ~crashed' =>
            \A e \in 1..Len(entries) :
                entries[e].state # "queued" => entries'[e].state # "queued"

\* C22: a RESPONSE for augmentor x whose auction id is indexed with
\* outstanding set S leaves the entry indexed with S minus {x} and fires
\* nothing if that set is not empty, and otherwise fires onFinished and
\* removes the entry in the same handler; the entry goes pending -> pending
\* or pending -> completed and never back to queued
C22_ResponseTransitions == []C22_ResponseIndex /\ [][C22_ResponseStep]_vars

\* C22: a partial RESPONSE has just left an entry pending with one of its
\* two names outstanding: both augmentors were sent the auction (each has
\* one request in flight, the RESPONSE having come from another address)
C22_Witness ==
    /\ hist.op = "doResponse"
    /\ hist.note = "partial"
    /\ \E id \in DOMAIN augmenting :
        /\ Cardinality(augmenting[id].outstanding) = 1
        /\ entries[augmenting[id].entry].state = "pending"
        /\ entries[augmenting[id].entry].fires = 0
    /\ DOMAIN augmentors = {1, 2}
    /\ \A name \in DOMAIN augmentors :
            \E i \in 1..Len(augmentors[name]) :
                augmentors[name][i].numInFlight = 1

\* the instances of a sequence with numInFlight < maxInFlight
Available(instances) ==
    {i \in 1..Len(instances) :
        instances[i].numInFlight < instances[i].maxInFlight}

\* C23: pickInstance returns the first instance in iteration order among
\* those with numInFlight < maxInFlight that have the minimum numInFlight
\* and increments only that instance's numInFlight by one; it returns null
\* and leaves every counter unchanged when no instance has numInFlight <
\* maxInFlight
C23_PicksFirstLeastLoaded ==
    pick.pc = "done" =>
        LET avail == Available(pick.instances)
            i == pick.instance
        IN IF avail = {}
           THEN i = 0 /\ pick.after = pick.instances
           ELSE /\ i \in avail
                /\ \A j \in avail :
                    /\ pick.instances[i].numInFlight <= pick.instances[j].numInFlight
                    /\ j < i => pick.instances[j].numInFlight
                                    > pick.instances[i].numInFlight
                /\ pick.after =
                    [pick.instances EXCEPT ![i].numInFlight = @ + 1]

\* C23: the call skipped a busy instance and took the second of three, tied
\* with the third on the least numInFlight
C23_Witness ==
    /\ pick.pc = "done"
    /\ Len(pick.instances) = 3
    /\ pick.instance = 2
    /\ 1 \notin Available(pick.instances)
    /\ pick.instances[1].numInFlight < pick.instances[2].numInFlight
    /\ pick.instances[3].numInFlight = pick.instances[2].numInFlight
    /\ 3 \in Available(pick.instances)

\* the deadline index without the entries whose timeout is at or before t
KeptAt(index, t) ==
    [i \in {id \in DOMAIN index : index[id].timeout > t} |-> index[i]]

\* checkExpiries run on the index as it stands removes exactly the entries
\* whose timeout is at or before now, and runs onFinished for exactly those
C24_ExpiresDue ==
    ~crashed =>
        LET r == CheckExpiriesIndex(augmenting, now)
        IN /\ r.index = KeptAt(augmenting, now)
           /\ r.fired = {augmenting[id].entry :
                            id \in {i \in DOMAIN augmenting :
                                        augmenting[i].timeout <= now}}

\* a checkExpiries step leaves the index without its due entries and leaves
\* the directory, the snapshot and every numInFlight as they were
C24_CheckExpiriesStep ==
    CheckExpiries =>
        /\ augmenting' = KeptAt(augmenting, now)
        /\ augmentors' = augmentors
        /\ allAugmentors' = allAugmentors

\* some instance's numInFlight is lower after the step, or the instance is
\* gone from the directory
Lowered ==
    \E name \in DOMAIN augmentors : \E i \in 1..Len(augmentors[name]) :
        LET was == augmentors[name][i]
        IN \/ name \notin DOMAIN augmentors'
           \/ FindInstance(augmentors'[name], was.addr) = 0
           \/ augmentors'[name][FindInstance(augmentors'[name], was.addr)]
                    .numInFlight < was.numInFlight

\* a counter goes down, or an instance goes away, only in a step that
\* handles an augmentor's message (RESPONSE, CONFIG) or a disconnection
C24_CountedStep ==
    (~crashed' /\ Lowered) =>
        \/ \E message \in Messages : HandleAugmentorMessage(message)
        \/ \E addr \in Addrs : DoDisconnection(addr)

\* C24: checkExpiries removes from the deadline index every entry whose
\* timeout is at or before now and no other, and changes neither the
\* directory nor any numInFlight; a counter goes down only when a message of
\* that augmentor or a disconnection is handled
C24_ExpiryFrame ==
    []C24_ExpiresDue /\ [][C24_CheckExpiriesStep /\ C24_CountedStep]_vars

\* C24: an entry has expired, the index is empty, and the instance it was
\* sent to still counts it in flight
C24_Witness ==
    /\ ~crashed
    /\ augmenting = <<>>
    /\ \E e \in 1..Len(entries) : entries[e].state = "expired"
    /\ \E name \in DOMAIN augmentors : \E i \in 1..Len(augmentors[name]) :
            augmentors[name][i].numInFlight = 1

\* the tags of augmentor x in an auction's augmentations, none when the
\* auction has no such key
TagsOf(augmentations, x) ==
    IF x \in DOMAIN augmentations THEN augmentations[x] ELSE {}

\* what a null response from the instance at addr, for auction id and
\* augmentor n, does to the dispatcher: the handler returns, the instance's
\* numInFlight goes down by one, n leaves the entry's outstanding set, the
\* entry completes with its callback when the set is then empty, and no tag
\* is added to the auction
NullResponseStep(addr, id, n) ==
    /\ ~crashed'
    /\ hist'.note # "throw"
    /\ augmentors' = DecrementInFlight(augmentors, n, addr)
    /\ inbox' = inbox
    /\ idle_' = idle_
    /\ IF id \in DOMAIN augmenting
       THEN LET e == augmenting[id].entry
                left == augmenting[id].outstanding \ {n}
            IN /\ \A i \in (DOMAIN augmenting) \ {id} :
                    i \in DOMAIN augmenting' /\ augmenting'[i] = augmenting[i]
               /\ \A f \in (DOMAIN entries) \ {e} : entries'[f] = entries[f]
               /\ \A x \in Names :
                    TagsOf(entries'[e].augmentations, x)
                        = TagsOf(entries[e].augmentations, x)
               /\ IF left = {}
                  THEN /\ id \notin DOMAIN augmenting'
                       /\ entries'[e].state = "completed"
                       /\ entries'[e].fires = entries[e].fires + 1
                  ELSE /\ id \in DOMAIN augmenting'
                       /\ augmenting'[id].outstanding = left
                       /\ entries'[e].state = entries[e].state
                       /\ entries'[e].fires = entries[e].fires
       ELSE augmenting' = augmenting /\ entries' = entries

\* a RESPONSE with an empty or "null" payload has the effect of a null
\* response
C25_NullStep ==
    \A message \in PayloadFrames :
        (/\ At(message, 6) \in {"", "null"}
         /\ hist'.op = "doResponse"
         /\ hist'.addr = At(message, 0)
         /\ hist'.name = At(message, 5)
         /\ hist'.frame = <<>>
         /\ HandleAugmentorMessage(message))
            => NullResponseStep(At(message, 0), At(message, 4), At(message, 5))

\* a RESPONSE whose payload does not decode has the effect of a null
\* response
C25_UndecodableStep ==
    \A message \in PayloadFrames :
        (/\ At(message, 6) = UndecodablePayload
         /\ hist'.op = "doResponse"
         /\ hist'.frame = message)
            => NullResponseStep(At(message, 0), At(message, 4), At(message, 5))

\* C25: a RESPONSE whose payload fails to decode has the same effect on the
\* dispatcher as one with an empty or "null" payload for the same addr, id
\* and augmentor: numInFlight is decremented, the augmentor leaves the
\* entry's outstanding set, the entry completes with its callback if the set
\* becomes empty, nothing is merged and no exception leaves the handler
C25_DecodeFailureAsNull == [][C25_NullStep /\ C25_UndecodableStep]_vars

\* C25: a RESPONSE with an undecodable payload has just completed an entry,
\* from an instance that had one request in flight
C25_Witness ==
    /\ ~crashed
    /\ hist.op = "doResponse"
    /\ hist.note = "completed"
    /\ Len(hist.frame) = 7
    /\ At(hist.frame, 6) = UndecodablePayload
    /\ hist.name \in DOMAIN hist.pre
    /\ FindInstance(hist.pre[hist.name], hist.addr) # 0
    /\ hist.pre[hist.name][FindInstance(hist.pre[hist.name], hist.addr)]
            .numInFlight = 1
    /\ \E e \in 1..Len(entries) :
            /\ entries[e].state = "completed"
            /\ hist.name \in DOMAIN entries[e].augmentations
            /\ entries[e].augmentations[hist.name] = {}

\* augmentor x was never dispatched for the indexed auction id: it is not in
\* the entry's outstanding set and no response of x was merged into the
\* auction (an augmentor that augment() selected is outstanding until its
\* response is merged)
NeverDispatched(id, x) ==
    /\ x \notin augmenting[id].outstanding
    /\ x \notin DOMAIN entries[augmenting[id].entry].augmentations

\* the auction's augmentations of indexed id after doResponse handled a
\* decodable RESPONSE of augmentor x about it
AfterResponse(id, x) ==
    Merged(entries, DoResponseIndex(augmenting, id, x).merged, x,
           ParseAugmentation(DecodablePayload).list)
        [augmenting[id].entry].augmentations

\* a RESPONSE naming an augmentor never dispatched for an indexed auction
\* leaves the index, and with it the entry's outstanding set, as it was
C27_OutstandingKept ==
    ~crashed =>
        \A id \in DOMAIN augmenting : \A x \in Names :
            NeverDispatched(id, x)
                => DoResponseIndex(augmenting, id, x).index = augmenting

\* C27: doResponse merges a payload into an indexed entry's
\* auction.augmentations[x] only when x is one of the augmentors augment()
\* selected for the auction; a RESPONSE naming an augmentor never dispatched
\* for the auction id changes neither the auction's augmentations nor the
\* entry's outstanding set
C27_MergesOnlySelected ==
    ~crashed =>
        \A id \in DOMAIN augmenting : \A x \in Names :
            NeverDispatched(id, x)
                => /\ DoResponseIndex(augmenting, id, x).index = augmenting
                   /\ AfterResponse(id, x)
                        = entries[augmenting[id].entry].augmentations

\* every entry waiting in the inbox names only augmentors that are keys of
\* the directory, so that the dispatch loop run on it finds each record and
\* leaves the directory's keys as they are
C26_QueuedConfigured ==
    ~crashed =>
        \A i \in 1..Len(inbox) :
            LET d == DispatchLoop(augmentors, SetInOrder(inbox[i].outstanding),
                                  <<>>)
            IN /\ inbox[i].outstanding \subseteq DOMAIN augmentors
               /\ ~d.nullDeref
               /\ DOMAIN d.dir = DOMAIN augmentors

\* doAugmentation returns, and the directory has the keys it had
C26_DispatchStep ==
    hist'.op = "doAugmentation" =>
        /\ ~crashed'
        /\ DOMAIN augmentors' = DOMAIN augmentors

\* C26: whenever doAugmentation dispatches a drained entry, every name in
\* its outstanding set is a key of the directory with a record, also when a
\* disconnection or a re-CONFIG of the augmentor's only instance was
\* handled between augment() and the drain; doAugmentation adds no name to
\* the directory
C26_OutstandingConfigured ==
    []C26_QueuedConfigured /\ [][C26_DispatchStep]_vars

\* C26: an entry that names an augmentor waits in the inbox, and a
\* disconnection, or a CONFIG that replaced an instance, has just been
\* handled
C26_Witness ==
    /\ ~crashed
    /\ inbox # <<>>
    /\ Head(inbox).outstanding # {}
    /\ \/ hist.op = "doDisconnection"
       \/ hist.op = "doConfig" /\ hist.note = "replaced"
    /\ \E n \in Head(inbox).outstanding :
            n \in DOMAIN augmentors /\ Len(augmentors[n]) = 1

====
